---------------------------- MODULE Spec2Model ----------------------------
(***************************************************************************)
(* Model of the flight simulation engine RocketSimulator                   *)
(* (src/src/rocketSimulator.js).                                           *)
(*                                                                         *)
(* The JavaScript numbers are IEEE doubles; the model keeps every          *)
(* quantity as an integer in a fixed unit, chosen so that every            *)
(* intermediate product stays inside TLC's 32-bit integers:                *)
(*                                                                         *)
(*   altitude, downrange          cm                                       *)
(*   velocity, exhaustVelocity    mm/s                                     *)
(*   acceleration                 mm/s^2                                   *)
(*   mass                         dag (10 g)                               *)
(*   thrust                       N                                        *)
(*   gForce                       1/1000 g                                 *)
(*   twr                          1/100                                    *)
(*   dynamicPressure, maxQ        Pa                                       *)
(*   percentages                  1/1000 %                                 *)
(*   chamberPressure              mbar                                     *)
(*   angles                       1/1000 degree                            *)
(*   temperature                  1/100 K                                  *)
(*   machNumber                   1/1000                                   *)
(*   atmosphericDensity           1e-4 kg/m^3                              *)
(*   missionTime, stageNBurnTime  ticks of 0.1 s                           *)
(*   orbitalVelocity m/s; apogee, perigee km                               *)
(*                                                                         *)
(* A product of a quantity with a decimal factor (x * 0.85) is the floor   *)
(* of the exact product.  The fields yaw, roll and inclination are         *)
(* written once by the constructor and never again; they are left out.     *)
(***************************************************************************)
EXTENDS Integers, Sequences, FiniteSets, TLC

VARIABLES
    state,        \* this.state
    telemetry,    \* this.telemetry
    timers,       \* number of pending setTimeout callbacks of separateStage
    timerAge,     \* advance() calls made since the pending callback was scheduled
    stopped,      \* advance() calls made in phase ABORTED_STOPPED
    cmds,         \* number of operator commands issued so far
    lastOp,       \* name of the last operation performed
    anomalies,    \* the list checkAnomalies() returned, if it was the last operation
    peakQ,        \* largest telemetry.dynamicPressure a tick has left so far
    mission,            \* the server's mission object
    countdownInterval,  \* whether the server's countdown interval is set
    telemetryInterval,  \* whether the server's telemetry interval is set
    pollTimers,         \* number of pending setTimeout callbacks of startGoNoGoPoll
    range               \* this.status of the RangeControl instance

\* The server and the range: what the methods of the engine leave alone
siteVars == <<mission, countdownInterval, telemetryInterval, pollTimers, range>>

vars == <<state, telemetry, timers, timerAge, stopped, cmds, lastOp,
          anomalies, peakQ, siteVars>>

---------------------------------------------------------------------------
(* Bounds of the model *)

\* The deferred ignition fires before more than this many ticks have run.
MaxTimerTicks == 2

\* advance() is not called once missionTime has reached this many ticks.
MaxMissionTime == 2500

\* The same in a flight whose engine is ignited again in orbit.
MaxReflightTime == 6000

\* Number of advance() calls made in phase ABORTED_STOPPED.
MaxStoppedTicks == 2

\* advance() is not called below this depth under the pad, in m.
MaxDepth == 1000

\* In a flight of the first stage that the operator brings back, advance()
\* is not called in flight from this mission time on (the first stage
\* burns out later).
MaxLandingTime == 1600

\* Such a flight is brought back when missionTime is a multiple of this.
LandingPeriod == 100

\* Number of initiateLanding() calls in such a flight.
MaxLandings == 2

\* In a flight in which the operator tries commands, advance() is not
\* called in flight from this mission time on.
MaxCommandTime == 1700

\* In a flight brought back early and re-ignited, initiateLanding() is
\* called at this mission time (40 s) and advance() is not called in
\* flight from MaxGuidanceTime on.
GuidanceLandingTime == 400
MaxGuidanceTime == 900

\* In a flight whose second stage is left burning, advance() is not called
\* in flight from this mission time on.
MaxBurnTime == 6800

\* Number of commands outside the nominal sequence in one behaviour.
MaxCmds == 1

\* In flight such a command is issued when missionTime is a multiple of this.
CommandPeriod == 500

\* The lists of aircraft and of vessels in the range area hold at most this
\* many entries.
MaxAircraft == 1
MaxVessels == 1

\* The FTS battery (in 0.01 %) is followed down to this level.
MinBatteryLevel == 9982

\* At most this many setTimeout callbacks of startGoNoGoPoll are pending.
MaxPollTimers == 1

\* holdCountdown is followed while mission.holds is shorter than this.
MaxHolds == 1

\* The server's telemetry ticks are followed up to this missionTime (ticks).
MaxServerTime == 3

\* The clients send at most this many events in one behaviour.
MaxServerCmds == 5

\* A socket event arrives when mission.countdownTime is a multiple of this.
ServerCommandPeriod == 10

\* emergencyClosure() is called while the list of violations is shorter
\* than this.
MaxViolations == 2

---------------------------------------------------------------------------
(* Arithmetic *)

Max(a, b) == IF a >= b THEN a ELSE b
Min(a, b) == IF a <= b THEN a ELSE b
Abs(a) == IF a < 0 THEN -a ELSE a

\* floor(a * b / c) for c > 0, without forming a * b (needs c * b < 2^31)
MulDiv(a, b, c) == (a \div c) * b + ((a % c) * b) \div c

\* Math.sqrt: the integer square root, floor(sqrt(n)) for 0 <= n < 2^30
RECURSIVE SqrtIter(_, _, _)
SqrtIter(n, lo, hi) ==
    IF hi - lo <= 1 THEN lo
    ELSE CHOOSE r \in {IF mid * mid <= n THEN SqrtIter(n, mid, hi)
                                           ELSE SqrtIter(n, lo, mid) :
                        mid \in {(lo + hi) \div 2}} : TRUE

Sqrt(n) == IF n <= 0 THEN 0 ELSE SqrtIter(n, 0, 32768)

RECURSIVE Pow2(_)
Pow2(k) == IF k <= 0 THEN 1 ELSE 2 * Pow2(k - 1)

\* Math.exp(-alt / 8000) in units of 1e-5, alt in cm.  exp(-x) with
\* x = k * ln 2 + u is 2^-k * exp(-u); exp(-u) is its Taylor polynomial of
\* degree 6 in Horner form (u < ln 2, in units of 1e-4).
ExpScale == 100000
Ln2 == 6931
ExpNeg(altCm) ==
    LET x == altCm \div 80
        k == x \div Ln2
        u == x % Ln2
        t6 == ExpScale - ((u * ExpScale) \div 10000) \div 6
        t5 == ExpScale - ((u * t6) \div 10000) \div 5
        t4 == ExpScale - ((u * t5) \div 10000) \div 4
        t3 == ExpScale - ((u * t4) \div 10000) \div 3
        t2 == ExpScale - ((u * t3) \div 10000) \div 2
        t1 == ExpScale - ((u * t2) \div 10000)
    IN IF k >= 0 THEN t1 \div Pow2(k) ELSE t1 * Pow2(-k)

\* Math.sin of an angle in 1/10 degree, in units of 1/1000 (Bhaskara's
\* rational approximation on [0, 180] degrees, extended by symmetry).
SinHalf(d) == LET p == d * (1800 - d) IN (((p * 2000) \div (4050000 - p)) * 2)
Sin(dd) == LET d == dd % 3600 IN IF d <= 1800 THEN SinHalf(d) ELSE -SinHalf(d - 1800)
Cos(dd) == Sin(dd + 900)

\* An angle of rate * missionTime radians (rate in 1/10 rad/s, missionTime
\* in ticks) in 1/10 degree: 1 rad = 572.958 tenths of a degree.
RadToDeci(rateTenths, mt) == MulDiv(mt * rateTenths, 57296, 10000)

---------------------------------------------------------------------------
(* JavaScript's undefined and NaN, for the telemetry fields the            *)
(* constructor does not create.                                             *)

Undefined == 0 - 2000000001
NaN == 0 - 2000000002
IsNum(x) == x /= Undefined /\ x /= NaN

\* Math.max(floor, x * num / den)
Decay(floor, x, num, den) == IF IsNum(x) THEN Max(floor, MulDiv(x, num, den)) ELSE NaN
\* x + y
Plus(x, y) == IF IsNum(x) /\ IsNum(y) THEN x + y ELSE NaN

---------------------------------------------------------------------------
(* this.specs, this.constants, this.mission, this.limits *)

TotalMass == 54905400            \* specs.totalMass, 549054 kg
Stage1Thrust == 7607000          \* specs.firstStage.thrust
Stage1ThrustVac == 8227000       \* specs.firstStage.thrustVac
Stage1BurnTime == 1620           \* specs.firstStage.burnTime, 162 s
Stage1Isp == 282                 \* specs.firstStage.specificImpulse
Stage2DryMass == 400000          \* specs.secondStage.dryMass, 4000 kg
Stage2PropellantMass == 11150000 \* specs.secondStage.propellantMass, 111500 kg
Stage2Thrust == 934000           \* specs.secondStage.thrust
Stage2BurnTime == 3970           \* specs.secondStage.burnTime, 397 s
Stage2Isp == 348                 \* specs.secondStage.specificImpulse
Stage1DryMass == 2220000         \* specs.firstStage.dryMass, 22200 kg
Payload == 2280000               \* specs.payload, 22800 kg
G0 == 9810                       \* constants.g0, 9.81 m/s^2
EarthRadius == 63710             \* constants.Re, in units of 100 m
AtmosphereHeight == 10000000     \* constants.atmosphereHeight, 100 km
AirDensitySeaLevel == 12250      \* constants.airDensitySeaLevel, 1.225 kg/m^3
TargetAltitude == 40000000       \* mission.targetAltitude, 400 km
TargetVelocity == 7660000        \* mission.targetVelocity, 7660 m/s
GravityTurnStart == 15000        \* mission.gravityTurnStart, 150 m
LimitMaxQ == 45000               \* limits.maxQ
LimitMaxG == 5000                \* limits.maxG
LimitMaxThrust == 8500000        \* limits.maxThrust

Phases == {"PAD", "IGNITION", "LAUNCH", "ASCENT", "MECO", "STAGE_SEP",
           "SECOND_STAGE", "ORBIT", "ABORT", "ABORTED_STOPPED", "LANDING",
           "LANDED"}

\* The engine as the constructor leaves it (lines 36-93).  The secondary
\* propulsion fields and state.landingLegsDeployed are not created by the
\* constructor: they read as undefined (landingLegsDeployed as falsy).
InitState ==
    [phase |-> "PAD", stageNumber |-> 1, ignitionSequence |-> FALSE,
     engineStatus |-> "OFF", guidanceMode |-> "GRAVITY_TURN",
     throttleLevel |-> 100, missionTime |-> 0, abort |-> FALSE,
     landingBurnStarted |-> FALSE, landingLegsDeployed |-> FALSE]

InitTelemetry ==
    [altitude |-> 0, velocity |-> 0, acceleration |-> 0, downrange |-> 0,
     apogee |-> 0, perigee |-> 0, orbitalVelocity |-> 0,
     mass |-> TotalMass, thrust |-> 0, twr |-> 0, maxQ |-> 0, gForce |-> 0,
     propellantRemaining |-> 100000, engineThrottle |-> 0,
     chamberPressure |-> 0, exhaustVelocity |-> 0,
     pitch |-> 90000, flightPathAngle |-> 90000,
     dynamicPressure |-> 0, machNumber |-> 0,
     atmosphericDensity |-> AirDensitySeaLevel, temperature |-> 28800,
     stage1FuelRemaining |-> 100000, stage2FuelRemaining |-> 100000,
     stage1BurnTime |-> 0, stage2BurnTime |-> 0,
     chamberTemperature |-> Undefined, fuelFlowRate |-> Undefined,
     oxidizerFlowRate |-> Undefined, totalFlowRate |-> Undefined,
     fuelTurbopumpRPM |-> Undefined, oxidizerTurbopumpRPM |-> Undefined,
     turbopumpInletPressure |-> Undefined, nozzleThroatTemp |-> Undefined,
     turbineInletTemp |-> Undefined, vibrationLevel |-> Undefined,
     gimbalAngleX |-> Undefined, gimbalAngleY |-> Undefined]

\* An engine: the pair of records the methods read and write, and the
\* number of pending deferred ignitions.
Engine(s, t, n) == [s |-> s, t |-> t, timers |-> n]

---------------------------------------------------------------------------
(* Commands *)

\* armIgnition()
ArmIgnition(e) ==
    IF e.s.phase = "PAD"
    THEN [e EXCEPT !.s.ignitionSequence = TRUE]
    ELSE e

\* startIgnitionSequence()
StartIgnitionSequence(e) ==
    IF e.s.ignitionSequence
    THEN [e EXCEPT !.s.phase = "IGNITION", !.s.engineStatus = "STARTING"]
    ELSE e

\* A launch() that lifts off in whatever phase it is called
LaunchAnywhere(e) ==
    [e EXCEPT !.s.phase = "LAUNCH", !.s.engineStatus = "RUNNING"]

\* launch()
Launch(e) ==
    IF e.s.phase = "IGNITION" \/ e.s.phase = "PAD"
    THEN [e EXCEPT !.s.phase = "LAUNCH", !.s.engineStatus = "RUNNING"]
    ELSE e

\* abort()
Abort(e) ==
    [e EXCEPT !.s.phase = "ABORT", !.s.abort = TRUE, !.t.thrust = 0]

\* initiateLanding()
InitiateLanding(e) ==
    [e EXCEPT !.s.phase = "LANDING", !.s.landingBurnStarted = FALSE]

\* A setThrottle(level) that moves the throttle by level
SetThrottleRelative(e, level) ==
    [e EXCEPT !.s.throttleLevel = Max(0, Min(100, @ + level))]

\* A setThrottle(level) without the lower clamp
SetThrottleNoFloor(e, level) ==
    [e EXCEPT !.s.throttleLevel = Min(100, level)]

\* setThrottle(level)
SetThrottle(e, level) ==
    [e EXCEPT !.s.throttleLevel = Max(0, Min(100, level))]

\* A separateStage() without the test of stageNumber
SeparateStageAlways(e) ==
    [e EXCEPT !.s.phase = "STAGE_SEP", !.s.stageNumber = 2,
              !.t.mass = Stage2DryMass + Stage2PropellantMass + Payload,
              !.timers = @ + 1]

\* A separateStage() that also cuts the thrust
SeparateStageCutoff(e) ==
    IF e.s.stageNumber = 1
    THEN [e EXCEPT !.s.phase = "STAGE_SEP", !.s.stageNumber = 2,
                   !.t.mass = Stage2DryMass + Stage2PropellantMass + Payload,
                   !.t.thrust = 0,
                   !.timers = @ + 1]
    ELSE e

\* separateStage(): the setTimeout call adds one pending callback
SeparateStage(e) ==
    IF e.s.stageNumber = 1
    THEN [e EXCEPT !.s.phase = "STAGE_SEP", !.s.stageNumber = 2,
                   !.t.mass = Stage2DryMass + Stage2PropellantMass + Payload,
                   !.timers = @ + 1]
    ELSE e

\* The callback of setTimeout in separateStage()
SecondStageIgnition(e) ==
    [e EXCEPT !.s.phase = "SECOND_STAGE", !.timers = @ - 1]

---------------------------------------------------------------------------
(* Physics helpers *)

\* a / c as JavaScript divides: defined for a negative divisor as well
Div(a, c) == IF c > 0 THEN a \div c ELSE (-a) \div (-c)
\* a * b / c for a divisor of either sign
Quot(a, b, c) == IF c > 0 THEN MulDiv(a, b, c) ELSE MulDiv(-a, b, -c)

\* velocity * velocity in m^2/s^2, velocity in mm/s
Square(v) ==
    IF Abs(v) < 4000000
    THEN LET va == Abs(v) \div 100 IN (va * va) \div 100
    ELSE LET vm == Abs(v) \div 1000 IN vm * vm

\* Re / r, in units of 1/30000, at an altitude in cm
RadiusRatio(alt) == (EarthRadius * 30000) \div (EarthRadius + alt \div 10000)

\* getGravity(): g0 * (Re / r)^2 in mm/s^2
GetGravity(t) ==
    LET ratio == RadiusRatio(t.altitude)
    IN (((ratio * ratio) \div 30000) * G0) \div 30000

\* calculateThrust(stage)
CalculateThrust(e) ==
    IF e.s.stageNumber = 1
    THEN Stage1Thrust
         + MulDiv(ExpNeg(e.t.altitude),
                  (Stage1ThrustVac - Stage1Thrust) \div 10000, ExpScale \div 10000)
    ELSE Stage2Thrust

\* 0.5 * density * velocity^2 in Pa
HalfRhoV2(density, velocity) == MulDiv(Square(velocity), density, 20000)

\* calculateDrag(): 0.5 * density * v^2 * cd * area, cd * area = 0.3 * 10.52
CalculateDrag(t) ==
    IF t.altitude > AtmosphereHeight
    THEN 0
    ELSE (HalfRhoV2(t.atmosphericDensity, t.velocity) * 3156) \div 1000

\* this.telemetry.mass * this.getGravity() in N
Weight(t) == MulDiv(t.mass \div 100, GetGravity(t), 1000)

\* A guidance law without the band in which the throttle is held
UpdateGuidanceNoHold(e) ==
    LET t == e.t
        pitched == e.s.guidanceMode = "GRAVITY_TURN" /\ t.altitude > GravityTurnStart
        pitch == IF pitched THEN Max(90000 - MulDiv(t.altitude, 9, 2000), 0) ELSE t.pitch
        throttle ==
            IF t.dynamicPressure > 35000 /\ e.s.stageNumber = 1 THEN 70
            ELSE IF e.s.throttleLevel < 100 THEN 100
            ELSE e.s.throttleLevel
    IN [e EXCEPT !.t.pitch = pitch,
                 !.t.flightPathAngle = IF pitched THEN pitch ELSE @,
                 !.s.throttleLevel = throttle]

\* A guidance law that never throttles back up
UpdateGuidanceNoRestore(e) ==
    LET t == e.t
        pitched == e.s.guidanceMode = "GRAVITY_TURN" /\ t.altitude > GravityTurnStart
        pitch == IF pitched THEN Max(90000 - MulDiv(t.altitude, 9, 2000), 0) ELSE t.pitch
        throttle ==
            IF t.dynamicPressure > 35000 /\ e.s.stageNumber = 1 THEN 70
            ELSE e.s.throttleLevel
    IN [e EXCEPT !.t.pitch = pitch,
                 !.t.flightPathAngle = IF pitched THEN pitch ELSE @,
                 !.s.throttleLevel = throttle]

\* updateGuidance()
UpdateGuidance(e) ==
    LET t == e.t
        pitched == e.s.guidanceMode = "GRAVITY_TURN" /\ t.altitude > GravityTurnStart
        pitch == IF pitched THEN Max(90000 - MulDiv(t.altitude, 9, 2000), 0) ELSE t.pitch
        throttle ==
            IF t.dynamicPressure > 35000 /\ e.s.stageNumber = 1 THEN 70
            ELSE IF t.dynamicPressure < 25000 /\ e.s.throttleLevel < 100 THEN 100
            ELSE e.s.throttleLevel
    IN [e EXCEPT !.t.pitch = pitch,
                 !.t.flightPathAngle = IF pitched THEN pitch ELSE @,
                 !.s.throttleLevel = throttle]

\* A percentage that reaches 0 one tick after the rated burn time
FuelRemainingLate(burnTime, rated) ==
    Max(0, 100000 - MulDiv(burnTime, 100000, rated + 1))

\* Math.max(0, 100 * (1 - burnTime / stage.burnTime))
FuelRemaining(burnTime, rated) == Max(0, 100000 - MulDiv(burnTime, 100000, rated))

\* simulateAscent()
SimulateAscent(e) ==
    LET s == e.s
        t == e.t
        first == s.stageNumber = 1
        isp == IF first THEN Stage1Isp ELSE Stage2Isp
        rated == IF first THEN Stage1BurnTime ELSE Stage2BurnTime
        thrust == (CalculateThrust(e) * s.throttleLevel) \div 100
        mass == t.mass - MulDiv(thrust, 1000, isp * 981)
        burnTime == (IF first THEN t.stage1BurnTime ELSE t.stage2BurnTime) + 1
        fuel == FuelRemaining(burnTime, rated)
        t1 == [t EXCEPT !.thrust = thrust, !.mass = mass,
                        !.stage1BurnTime = IF first THEN burnTime ELSE @,
                        !.stage1FuelRemaining = IF first THEN fuel ELSE @,
                        !.stage2BurnTime = IF first THEN @ ELSE burnTime,
                        !.stage2FuelRemaining = IF first THEN @ ELSE fuel,
                        !.propellantRemaining = fuel]
        weight == Weight(t1)
        drag == CalculateDrag(t1)
        netForce == thrust - weight - drag
        acceleration == Quot(netForce, 1000, mass \div 100)
        velocity == t.velocity + acceleration \div 10
        altitude == t.altitude + velocity \div 100
        horizontalVel == MulDiv(velocity, Sin((90000 - t.pitch) \div 100), 1000)
        t2 == [t1 EXCEPT !.acceleration = acceleration,
                         !.gForce = MulDiv(acceleration, 1000, G0),
                         !.velocity = velocity, !.altitude = altitude,
                         !.downrange = @ + horizontalVel \div 100]
        g == UpdateGuidance([e EXCEPT !.t = t2])
    IN [g EXCEPT !.t.exhaustVelocity = isp * G0,
                 !.t.chamberPressure = MulDiv(t.engineThrottle, 270, 100),
                 !.t.twr = Div(thrust * 100, weight)]

\* simulateIgnition()
SimulateIgnition(e) ==
    LET ignitionProgress == Min(e.s.missionTime * 1000, 1000)
    IN [e EXCEPT !.t.thrust = MulDiv(Stage1Thrust, ignitionProgress, 1000),
                 !.t.engineThrottle = ignitionProgress * 100,
                 !.t.chamberPressure = 270 * ignitionProgress,
                 !.s.phase = IF ignitionProgress >= 1000 THEN "LAUNCH" ELSE @]

\* A coast that ignites the second stage by itself
SimulateMECOIgnites(e) ==
    IF e.s.phase = "STAGE_SEP" THEN [e EXCEPT !.s.phase = "SECOND_STAGE"] ELSE e

\* simulateMECO()
SimulateMECO(e) ==
    LET t == e.t
        weight == Weight(t)
        drag == CalculateDrag(t)
        acceleration == Quot(-(weight + drag), 1000, t.mass \div 100)
        velocity == t.velocity + acceleration \div 10
    IN [e EXCEPT !.t.acceleration = acceleration,
                 !.t.velocity = velocity,
                 !.t.altitude = @ + velocity \div 100,
                 !.t.gForce = MulDiv(acceleration, 1000, G0)]

\* The temperature profile of updateEnvironment(), altitude in cm
Temperature(alt) ==
    LET m == alt \div 100
    IN IF m < 11000 THEN 28800 - MulDiv(m, 65, 100)
       ELSE IF m < 25000 THEN 21665
       ELSE 21665 + ((m - 25000) * 28) \div 100

\* An update that stores the latest dynamic pressure as max-Q
UpdateEnvironmentLastQ(e) ==
    LET t == e.t
        alt == t.altitude
        density == MulDiv(ExpNeg(alt), AirDensitySeaLevel \div 10, ExpScale \div 10)
        temperature == Temperature(alt)
        speedOfSound == Sqrt((4018 * temperature) \div 10)
        q == HalfRhoV2(density, t.velocity)
    IN IF alt < AtmosphereHeight
       THEN [e EXCEPT !.t.atmosphericDensity = density,
                      !.t.temperature = temperature,
                      !.t.machNumber = (t.velocity * 10) \div speedOfSound,
                      !.t.dynamicPressure = q,
                      !.t.maxQ = q]
       ELSE [e EXCEPT !.t.atmosphericDensity = 0,
                      !.t.dynamicPressure = 0,
                      !.t.machNumber = 0,
                      !.t.temperature = 270]

\* updateEnvironment()
UpdateEnvironment(e) ==
    LET t == e.t
        alt == t.altitude
        density == MulDiv(ExpNeg(alt), AirDensitySeaLevel \div 10, ExpScale \div 10)
        temperature == Temperature(alt)
        speedOfSound == Sqrt((4018 * temperature) \div 10)
        q == HalfRhoV2(density, t.velocity)
    IN IF alt < AtmosphereHeight
       THEN [e EXCEPT !.t.atmosphericDensity = density,
                      !.t.temperature = temperature,
                      !.t.machNumber = (t.velocity * 10) \div speedOfSound,
                      !.t.dynamicPressure = q,
                      !.t.maxQ = IF q > @ THEN q ELSE @]
       ELSE [e EXCEPT !.t.atmosphericDensity = 0,
                      !.t.dynamicPressure = 0,
                      !.t.machNumber = 0,
                      !.t.temperature = 270]

\* calculateOrbitalParams(): mu / r = g0 * Re * (Re / r) in m^2/s^2, and
\* a = -mu / (2 * energy) = r * (mu / r) / (2 * mu / r - vel^2)
CalculateOrbitalParams(e) ==
    LET t == e.t
        rKm == (EarthRadius + t.altitude \div 10000) \div 10
        muOverR == MulDiv(62499510, RadiusRatio(t.altitude), 30000)
        vm == t.velocity \div 1000
        w == 2 * muOverR - vm * vm
        a == ((rKm * (muOverR \div 1000)) \div Max(1, w \div 1000))
        bound == t.velocity > 0 /\ w > 0
    IN [e EXCEPT !.t.orbitalVelocity = Sqrt(muOverR),
                 !.t.apogee = IF bound THEN 2 * a - rKm ELSE @,
                 !.t.perigee = IF bound THEN t.altitude \div 100000 ELSE @]

\* checkPhaseTransitions(): four if statements in sequence
ToAscent(e) ==
    IF e.s.phase = "LAUNCH" /\ e.t.altitude > 100000
    THEN [e EXCEPT !.s.phase = "ASCENT"]
    ELSE e

\* A cutoff one tick after the rated burn time
ToMECOLate(e) ==
    IF e.s.phase = "ASCENT" /\ e.s.stageNumber = 1
       /\ e.t.stage1BurnTime > Stage1BurnTime
    THEN [e EXCEPT !.s.phase = "MECO", !.t.thrust = 0]
    ELSE e

ToMECO(e) ==
    IF e.s.phase = "ASCENT" /\ e.s.stageNumber = 1
       /\ (e.t.stage1FuelRemaining <= 0 \/ e.t.stage1BurnTime >= Stage1BurnTime)
    THEN [e EXCEPT !.s.phase = "MECO", !.t.thrust = 0]
    ELSE e

ToStageSep(e) ==
    IF e.s.phase = "MECO" /\ e.s.missionTime > 30
    THEN SeparateStage(e)
    ELSE e

\* A shutdown test that also aborts the flight beyond the g-force limit
ToOrbitOrAbort(e) ==
    IF Abs(e.t.gForce) > LimitMaxG
    THEN Abort(e)
    ELSE IF e.s.phase = "SECOND_STAGE"
            /\ (e.t.stage2FuelRemaining <= 0
                \/ e.t.altitude >= TargetAltitude
                \/ e.t.velocity >= TargetVelocity)
    THEN [e EXCEPT !.s.phase = "ORBIT", !.t.thrust = 0]
    ELSE e

\* A shutdown test that needs both mission targets
ToOrbitBothTargets(e) ==
    IF e.s.phase = "SECOND_STAGE"
       /\ (e.t.stage2FuelRemaining <= 0
           \/ (e.t.altitude >= TargetAltitude /\ e.t.velocity >= TargetVelocity))
    THEN [e EXCEPT !.s.phase = "ORBIT", !.t.thrust = 0]
    ELSE e

ToOrbit(e) ==
    IF e.s.phase = "SECOND_STAGE"
       /\ (e.t.stage2FuelRemaining <= 0
           \/ e.t.altitude >= TargetAltitude
           \/ e.t.velocity >= TargetVelocity)
    THEN [e EXCEPT !.s.phase = "ORBIT", !.t.thrust = 0]
    ELSE e

\* checkPhaseTransitions(): the four tests in the order of the code, each
\* on the engine the one before it leaves
CheckPhaseTransitions(e) ==
    CHOOSE r \in {ToOrbit(c) : c \in
                    {ToStageSep(b) : b \in
                       {ToMECO(a) : a \in {ToAscent(e)}}}} : TRUE

---------------------------------------------------------------------------
(* Abort sequencer *)

\* The assignments of simulateAbort() shared by its two stop branches
AbortStop(e) ==
    [e EXCEPT !.t.altitude = 0, !.t.velocity = 0, !.t.acceleration = 0,
              !.t.gForce = 0, !.t.fuelTurbopumpRPM = 0,
              !.t.oxidizerTurbopumpRPM = 0, !.t.fuelFlowRate = 0,
              !.t.oxidizerFlowRate = 0, !.t.totalFlowRate = 0,
              !.s.phase = "ABORTED_STOPPED",
              !.s.engineStatus = "SHUTDOWN - ABORTED"]

\* simulateAbort(), lines 484-508: the vehicle is already at a complete stop
AbortAtRest(e) ==
    LET z == AbortStop(e)
    IN [z EXCEPT !.t.thrust = 0, !.t.chamberPressure = 0,
                 !.t.chamberTemperature = 30000,
                 !.t.turbopumpInletPressure = 0,
                 !.t.nozzleThroatTemp = 30000, !.t.turbineInletTemp = 30000,
                 !.t.dynamicPressure = 0, !.t.machNumber = 0,
                 !.t.vibrationLevel = 0, !.t.exhaustVelocity = 0]

\* simulateAbort(), lines 510-544: the geometric decay of one tick
AbortDecay(e) ==
    LET t == e.t
        fuelFlowRate == Decay(0, t.fuelFlowRate, 70, 100)
        oxidizerFlowRate == Decay(0, t.oxidizerFlowRate, 70, 100)
    IN [e EXCEPT
          !.t.thrust = 0,
          !.t.chamberPressure = Max(0, MulDiv(@, 85, 100)),
          !.t.chamberTemperature = Decay(30000, @, 90, 100),
          !.t.altitude = Max(0, MulDiv(@, 85, 100)),
          !.t.velocity = Max(0, MulDiv(@, 75, 100)),
          !.t.downrange = Max(0, MulDiv(@, 98, 100)),
          !.t.acceleration = -9810,
          !.t.gForce = -1000,
          !.t.fuelFlowRate = fuelFlowRate,
          !.t.oxidizerFlowRate = oxidizerFlowRate,
          !.t.totalFlowRate = Plus(fuelFlowRate, oxidizerFlowRate),
          !.t.propellantRemaining = Max(0, MulDiv(@, 95, 100)),
          !.t.fuelTurbopumpRPM = Decay(0, @, 75, 100),
          !.t.oxidizerTurbopumpRPM = Decay(0, @, 75, 100),
          !.t.turbopumpInletPressure = Decay(0, @, 80, 100),
          !.t.nozzleThroatTemp = Decay(30000, @, 88, 100),
          !.t.turbineInletTemp = Decay(30000, @, 88, 100),
          !.t.dynamicPressure = 0,
          !.t.machNumber = 0,
          !.t.vibrationLevel = Decay(0, @, 70, 100),
          !.t.exhaustVelocity = Max(0, MulDiv(@, 80, 100)),
          !.t.mass = Max((TotalMass * 3) \div 10, MulDiv(@, 995, 1000))]

\* A final descent whose factor is 1.5 instead of 0.5
AbortNearGroundBounce(e) ==
    IF e.t.altitude < 10000
    THEN [e EXCEPT !.t.altitude = Max(0, MulDiv(@, 150, 100))]
    ELSE e

\* simulateAbort(), lines 546-550: the harsher decay below 100 m
AbortNearGround(e) ==
    IF e.t.altitude < 10000
    THEN [e EXCEPT !.t.altitude = Max(0, MulDiv(@, 50, 100))]
    ELSE e

\* simulateAbort(), lines 552-565: crashed
AbortCrash(e) == IF e.t.altitude < 100 THEN AbortStop(e) ELSE e

\* simulateAbort(), lines 510-565: the tick of a vehicle still moving
AbortDescent(e) ==
    CHOOSE r \in {AbortCrash(b) : b \in
                    {AbortNearGround(a) : a \in {AbortDecay(e)}}} : TRUE

\* A sequencer that leaves the engine running while the vehicle comes down
SimulateAbortThrusting(e) ==
    IF e.t.altitude <= 0 /\ e.t.velocity <= 0
    THEN AbortAtRest(e)
    ELSE [AbortDescent(e) EXCEPT !.t.thrust = CalculateThrust(e)]

\* A sequencer that lets the vehicle fall freely: it gains speed downwards
SimulateAbortFalling(e) ==
    IF e.t.altitude <= 0 /\ e.t.velocity <= 0
    THEN AbortAtRest(e)
    ELSE [AbortDescent(e) EXCEPT !.t.velocity = -Abs(e.t.velocity) - G0 \div 10]

\* simulateAbort()
SimulateAbort(e) ==
    IF e.t.altitude <= 0 /\ e.t.velocity <= 0
    THEN AbortAtRest(e)
    ELSE AbortDescent(e)

---------------------------------------------------------------------------
(* Landing sequencer *)

\* A choice of the band that ends the landing burn once the legs are out
LandingBandLegs(s, t) ==
    IF s.phase = "LANDED" THEN 0
    ELSE IF t.altitude > 5000000 THEN 1
    ELSE IF t.altitude > 700000 THEN 2
    ELSE IF t.altitude > 200000 THEN 3
    ELSE IF t.altitude > 50000 /\ ~s.landingBurnStarted THEN 4
    ELSE IF s.landingBurnStarted /\ ~s.landingLegsDeployed /\ t.altitude > 2000 THEN 5
    ELSE IF t.altitude <= 2000 /\ t.altitude > 0 THEN 6
    ELSE 7

\* The band simulateLanding() applies: 0 is its first branch (the phase is
\* already LANDED), 1..7 the branches of lines 598-724 in order.
LandingBand(s, t) ==
    IF s.phase = "LANDED" THEN 0
    ELSE IF t.altitude > 5000000 THEN 1
    ELSE IF t.altitude > 700000 THEN 2
    ELSE IF t.altitude > 200000 THEN 3
    ELSE IF t.altitude > 50000 /\ ~s.landingBurnStarted THEN 4
    ELSE IF s.landingBurnStarted /\ t.altitude > 2000 THEN 5
    ELSE IF t.altitude <= 2000 /\ t.altitude > 0 THEN 6
    ELSE 7

\* Bands 1-4: a velocity law, the Euler step of the altitude, fixed thrust
LandingCoast(e, velocity, thrust, throttle, status) ==
    [e EXCEPT !.t.velocity = velocity,
              !.t.altitude = @ + velocity \div 100,
              !.t.thrust = thrust,
              !.t.engineThrottle = throttle,
              !.s.engineStatus = status]

ReentryBurn(e) ==
    LET velocity == Max(-1200000, e.t.velocity - 30000)
        c == LandingCoast(e, velocity, 1800000, 30000, "RE-ENTRY BURN (3 ENGINES)")
    IN [c EXCEPT !.t.machNumber = Abs(velocity) \div 343,
                 !.t.dynamicPressure = Square(velocity) \div 200]

GridFinDescent(e) ==
    LET velocity == Max(-350000, e.t.velocity - 15000)
        c == LandingCoast(e, velocity, 0, 0, "GRID FIN CONTROL")
        mt == e.s.missionTime
    IN [c EXCEPT !.t.pitch = 88000 + 2 * Sin(RadToDeci(5, mt)),
                 !.t.gimbalAngleX = 3 * Sin(RadToDeci(15, mt)),
                 !.t.gimbalAngleY = 3 * Cos(RadToDeci(15, mt))]

EntryBurn(e) ==
    LandingCoast(e, Max(-250000, e.t.velocity + 10000), 2200000, 70000,
                 "ENTRY BURN (3 ENGINES)")

LandingBurnPrep(e) ==
    LET c == LandingCoast(e, Max(-120000, e.t.velocity - 8000), 0, 0,
                          "PREPARING LANDING BURN")
    IN [c EXCEPT !.s.landingBurnStarted = IF c.t.altitude <= 60000 THEN TRUE ELSE @]

\* Band 5.  Math.abs(velocity) / Math.abs(altitude / velocity) is
\* velocity^2 / altitude (and 0 / Infinity = 0 when the velocity is 0).
LandingBurn(e) ==
    LET t == e.t
        massKg == t.mass \div 100
        requiredDeceleration == MulDiv(Square(t.velocity), 10000, t.altitude \div 10)
        requiredThrust == Quot(requiredDeceleration + 9810, massKg, 1000)
        thrust == Min(850000, Max(340000, requiredThrust))
        engineThrottle == MulDiv(thrust, 2, 17)
        acceleration == Quot(thrust, 1000, massKg) - 9810
        velocity == t.velocity + acceleration \div 10
        altitude == t.altitude + velocity \div 100
    IN [e EXCEPT !.t.thrust = thrust,
                 !.t.engineThrottle = engineThrottle,
                 !.s.engineStatus = "LANDING BURN (1 ENGINE)",
                 !.t.velocity = velocity,
                 !.t.altitude = altitude,
                 !.t.chamberPressure = 100000 + MulDiv(engineThrottle, 150, 100),
                 !.t.chamberTemperature = 250000 + MulDiv(engineThrottle, 4, 5),
                 !.t.fuelFlowRate = MulDiv(engineThrottle, 5, 2),
                 !.t.oxidizerFlowRate = MulDiv(engineThrottle, 13, 2),
                 !.s.landingLegsDeployed = IF altitude < 4000 THEN TRUE ELSE @]

\* Band 6
Touchdown(e) ==
    LET t == e.t
        massKg == t.mass \div 100
        targetVelocity == -Sqrt(8000 * t.altitude)
        velocity == Max(-5000, targetVelocity)
        hoverThrust == MulDiv(massKg, 9810, 1000)
        velocityCorrection == MulDiv(targetVelocity - velocity, massKg, 100)
        thrust == Max(400000, Min(850000, hoverThrust + velocityCorrection))
    IN [e EXCEPT !.t.velocity = velocity,
                 !.t.altitude = Max(0, @ + velocity \div 100),
                 !.t.thrust = thrust,
                 !.t.engineThrottle = MulDiv(thrust, 2, 17),
                 !.s.engineStatus = "TOUCHDOWN BURN"]

\* Band 7
Landed(e) ==
    [e EXCEPT !.s.phase = "LANDED",
              !.t.altitude = 0, !.t.velocity = 0, !.t.thrust = 0,
              !.t.engineThrottle = 0, !.t.chamberPressure = 0,
              !.t.chamberTemperature = 30000, !.t.fuelFlowRate = 0,
              !.t.oxidizerFlowRate = 0, !.t.totalFlowRate = 0,
              !.t.acceleration = 0, !.t.gForce = 0,
              !.t.fuelTurbopumpRPM = 0, !.t.oxidizerTurbopumpRPM = 0,
              !.t.turbopumpInletPressure = 0, !.t.nozzleThroatTemp = 30000,
              !.t.turbineInletTemp = 30000, !.t.dynamicPressure = 0,
              !.t.machNumber = 0, !.t.vibrationLevel = 0,
              !.t.exhaustVelocity = 0,
              !.s.engineStatus = "SHUTDOWN - LANDED"]

\* simulateLanding(), lines 579-595: the phase is already LANDED
LandedHold(e) ==
    [e EXCEPT !.t.altitude = 0, !.t.velocity = 0, !.t.thrust = 0,
              !.t.engineThrottle = 0, !.t.chamberPressure = 0,
              !.t.fuelFlowRate = 0, !.t.oxidizerFlowRate = 0,
              !.t.acceleration = 0, !.t.gForce = 0, !.t.totalFlowRate = 0,
              !.t.fuelTurbopumpRPM = 0, !.t.oxidizerTurbopumpRPM = 0,
              !.s.engineStatus = "SHUTDOWN - LANDED"]

\* simulateLanding(), lines 726-733: recomputed after every band 1-7
LandingTelemetry(e) ==
    LET t == e.t
        acceleration == Quot(t.thrust, 1000, t.mass \div 100) - 9810
    IN [e EXCEPT !.t.acceleration = acceleration,
                 !.t.gForce = MulDiv(acceleration, 1000, 9810),
                 !.t.totalFlowRate = Plus(t.fuelFlowRate, t.oxidizerFlowRate),
                 !.t.fuelTurbopumpRPM = t.engineThrottle \div 5,
                 !.t.oxidizerTurbopumpRPM = MulDiv(t.engineThrottle, 22, 100)]

\* simulateLanding()
SimulateLanding(e) ==
    LET band == LandingBand(e.s, e.t)
    IN IF band = 0 THEN LandedHold(e)
       ELSE CHOOSE r \in {LandingTelemetry(a) : a \in
                 {CASE band = 1 -> ReentryBurn(e)
                    [] band = 2 -> GridFinDescent(e)
                    [] band = 3 -> EntryBurn(e)
                    [] band = 4 -> LandingBurnPrep(e)
                    [] band = 5 -> LandingBurn(e)
                    [] band = 6 -> Touchdown(e)
                    [] OTHER -> Landed(e)}} : TRUE

---------------------------------------------------------------------------
(* The tick *)

\* A switch whose default case lets the vehicle coast
PhaseUpdateCoasting(e) ==
    CASE e.s.phase = "IGNITION" -> SimulateIgnition(e)
      [] e.s.phase \in {"LAUNCH", "ASCENT"} -> SimulateAscent(e)
      [] e.s.phase = "SECOND_STAGE" -> SimulateAscent(e)
      [] e.s.phase = "ABORT" -> SimulateAbort(e)
      [] e.s.phase = "LANDING" -> SimulateLanding(e)
      [] OTHER -> SimulateMECO(e)

\* The switch of updateSimulation(), lines 164-187
PhaseUpdate(e) ==
    CASE e.s.phase = "IGNITION" -> SimulateIgnition(e)
      [] e.s.phase \in {"LAUNCH", "ASCENT"} -> SimulateAscent(e)
      [] e.s.phase = "MECO" -> SimulateMECO(e)
      [] e.s.phase = "STAGE_SEP" -> SimulateMECO(e)
      [] e.s.phase = "SECOND_STAGE" -> SimulateAscent(e)
      [] e.s.phase = "ABORT" -> SimulateAbort(e)
      [] e.s.phase = "LANDING" -> SimulateLanding(e)
      [] OTHER -> e

\* The phases in which updateSimulation() returns at once (line 154)
ReturnsEarly(phase) == phase \in {"PAD", "ORBIT", "LANDED"}

\* A clock that also runs during the abort
AdvanceMissionTimeInAbort(e) ==
    IF e.s.phase /= "LANDING"
    THEN [e EXCEPT !.s.missionTime = @ + 1]
    ELSE e

\* updateSimulation(), lines 158-161
AdvanceMissionTime(e) ==
    IF e.s.phase /= "ABORT" /\ e.s.phase /= "LANDING"
    THEN [e EXCEPT !.s.missionTime = @ + 1]
    ELSE e

\* updateSimulation()
UpdateSimulation(e) ==
    IF ReturnsEarly(e.s.phase)
    THEN e
    ELSE CHOOSE r \in {CheckPhaseTransitions(d) : d \in
                         {CalculateOrbitalParams(c) : c \in
                            {UpdateEnvironment(b) : b \in
                               {PhaseUpdate(a) : a \in
                                  {AdvanceMissionTime(e)}}}}} : TRUE

---------------------------------------------------------------------------
(* Anomaly detector *)

Anomaly(parameter, value, limit, severity, message) ==
    [parameter |-> parameter, value |-> value, limit |-> limit,
     severity |-> severity, message |-> message]

\* A detector that reports a thrust equal to the limit
CheckAnomaliesInclusive(t) ==
    (IF t.dynamicPressure > LimitMaxQ
     THEN <<Anomaly("dynamicPressure", t.dynamicPressure, LimitMaxQ,
                    "WARNING", "Approaching max-Q limits")>>
     ELSE <<>>)
    \o (IF Abs(t.gForce) > LimitMaxG
        THEN <<Anomaly("gForce", t.gForce, LimitMaxG,
                       "CRITICAL", "Excessive G-forces detected")>>
        ELSE <<>>)
    \o (IF t.thrust >= LimitMaxThrust
        THEN <<Anomaly("thrust", t.thrust, LimitMaxThrust,
                       "CRITICAL", "Engine over-thrust condition")>>
        ELSE <<>>)

\* checkAnomalies(): the list it returns for telemetry t
CheckAnomalies(t) ==
    (IF t.dynamicPressure > LimitMaxQ
     THEN <<Anomaly("dynamicPressure", t.dynamicPressure, LimitMaxQ,
                    "WARNING", "Approaching max-Q limits")>>
     ELSE <<>>)
    \o (IF Abs(t.gForce) > LimitMaxG
        THEN <<Anomaly("gForce", t.gForce, LimitMaxG,
                       "CRITICAL", "Excessive G-forces detected")>>
        ELSE <<>>)
    \o (IF t.thrust > LimitMaxThrust
        THEN <<Anomaly("thrust", t.thrust, LimitMaxThrust,
                       "CRITICAL", "Engine over-thrust condition")>>
        ELSE <<>>)

---------------------------------------------------------------------------
(* Range control (RangeControl in weatherMonitor.js) *)

\* Distances are in km for aircraft and nautical miles for vessels; the
\* FTS battery level is in units of 0.01 %.
RangeInitStatus ==
    [rangeStatus |-> "GREEN",
     airspace |-> [cleared |-> FALSE, aircraft |-> <<>>],
     maritime |-> [cleared |-> FALSE, vessels |-> <<>>],
     ground |-> [personnelEvacuated |-> FALSE, launchPadClear |-> FALSE,
                 roadsClosed |-> FALSE, hazardZonesClear |-> FALSE],
     tracking |-> [stationsOnline |-> 0, totalStations |-> 5,
                   telemetryLink |-> FALSE, radarLock |-> FALSE],
     fts |-> [armed |-> FALSE, tested |-> FALSE, batteryLevel |-> 10000],
     violations |-> <<>>,
     goForLaunch |-> FALSE]

\* Whether some element of the sequence is below the limit
AnyCloser(distances, limit) ==
    \E i \in 1..Len(distances) : distances[i] < limit

\* evaluateRangeStatus()
EvaluateRangeStatus(st) ==
    LET air == AnyCloser(st.airspace.aircraft, 30)
        sea == AnyCloser(st.maritime.vessels, 50)
        track == st.tracking.stationsOnline < 3
        fts == ~st.fts.armed \/ ~st.fts.tested
        battery == st.fts.batteryLevel < 8000
        s1 == IF air THEN "RED" ELSE "GREEN"
        s2 == IF sea /\ s1 = "GREEN" THEN "YELLOW" ELSE s1
        s3 == IF track THEN "RED" ELSE s2
        s4 == IF fts /\ s3 = "GREEN" THEN "YELLOW" ELSE s3
        s5 == IF battery /\ s4 = "GREEN" THEN "YELLOW" ELSE s4
        violations ==
            (IF air THEN <<"Aircraft in restricted airspace">> ELSE <<>>)
            \o (IF sea THEN <<"Vessels in exclusion zone">> ELSE <<>>)
            \o (IF track THEN <<"Insufficient tracking coverage">> ELSE <<>>)
            \o (IF fts THEN <<"Flight Termination System not ready">> ELSE <<>>)
            \o (IF battery THEN <<"FTS battery low">> ELSE <<>>)
    IN [st EXCEPT !.airspace.cleared = Len(st.airspace.aircraft) = 0,
                  !.maritime.cleared = Len(st.maritime.vessels) = 0,
                  !.tracking.telemetryLink = st.tracking.stationsOnline >= 3,
                  !.tracking.radarLock = st.tracking.stationsOnline >= 4,
                  !.rangeStatus = s5,
                  !.violations = violations,
                  !.goForLaunch = s5 = "GREEN" /\ Len(violations) = 0]

\* What one random draw of updateRangeStatus() does to a list of traffic:
\* a craft arrives at some distance, the first one leaves, or nothing
Traffic(list, event) ==
    IF event.kind = "arrive" THEN Append(list, event.distance)
    ELSE IF event.kind = "leave" /\ Len(list) > 0 THEN Tail(list)
    ELSE list

\* updateRangeStatus(), its random draws given: whether a station comes
\* online, the aircraft event, the vessel event and the battery drain
UpdateRangeStatus(st, stationUp, air, sea, drain) ==
    EvaluateRangeStatus(
        [st EXCEPT !.tracking.stationsOnline =
                        IF @ < st.tracking.totalStations /\ stationUp
                        THEN @ + 1 ELSE @,
                   !.airspace.aircraft = Traffic(@, air),
                   !.maritime.vessels = Traffic(@, sea),
                   !.fts.batteryLevel = Max(5000, @ - drain)])

\* clearRange()
ClearRange(st) ==
    [st EXCEPT !.ground = [personnelEvacuated |-> TRUE, launchPadClear |-> TRUE,
                           roadsClosed |-> TRUE, hazardZonesClear |-> TRUE],
               !.airspace.aircraft = <<>>,
               !.maritime.vessels = <<>>]

\* armFTS()
ArmFTS(st) == [st EXCEPT !.fts.armed = TRUE, !.fts.tested = TRUE]

\* disarmFTS()
DisarmFTS(st) == [st EXCEPT !.fts.armed = FALSE]

\* addTrackingStation()
AddTrackingStation(st) ==
    IF st.tracking.stationsOnline < st.tracking.totalStations
    THEN [st EXCEPT !.tracking.stationsOnline = @ + 1]
    ELSE st

\* isRangeClear()
IsRangeClear(st) == st.goForLaunch

\* emergencyClosure(reason)
EmergencyClosure(st, reason) ==
    [st EXCEPT !.rangeStatus = "RED",
               !.goForLaunch = FALSE,
               !.violations = Append(@, "EMERGENCY: " \o reason)]

---------------------------------------------------------------------------
(* The mission-control server (server code in README.md) *)

Stations ==
    {"Flight Director", "Booster", "FIDO", "Guidance", "EECOM", "GNC",
     "CAPCOM", "Range Safety", "Weather"}

\* The mission object; a vote that is null reads "null".  launchTime, a
\* wall-clock date, is left out.
InitMission ==
    [status |-> "IDLE", countdownTime |-> 30, holds |-> <<>>,
     goNoGoPoll |-> [stations |-> [s \in Stations |-> "null"],
                     isPolling |-> FALSE, pollComplete |-> FALSE],
     landingBurnAnnounced |-> FALSE]

\* Object.values(stations).every(v => v !== null)
AllVoted(stations) == \A s \in Stations : stations[s] /= "null"

\* Object.values(stations).every(v => v === 'GO')
AllGo(stations) == \A s \in Stations : stations[s] = "GO"

\* The test of the countdown at T-0: every vote is GO or null
AllGoOrNull(stations) == \A s \in Stations : stations[s] \in {"GO", "null"}

\* The votes the setTimeout callback of startGoNoGoPoll leaves: every
\* station but the Flight Director that has not voted votes GO
AutoVotes(stations) ==
    [s \in Stations |->
        IF stations[s] = "null" /\ s /= "Flight Director" THEN "GO"
        ELSE stations[s]]

\* The mission after goNoGoVote({station, vote}) while a poll is open
Voted(m, station, vote) ==
    LET stations == [m.goNoGoPoll.stations EXCEPT ![station] = vote]
        m1 == [m EXCEPT !.goNoGoPoll.stations = stations]
    IN IF ~AllVoted(stations) THEN m1
       ELSE LET m2 == [m1 EXCEPT !.goNoGoPoll.isPolling = FALSE,
                                 !.goNoGoPoll.pollComplete = TRUE]
            IN IF AllGo(stations)
               THEN [m2 EXCEPT !.status = IF @ = "PRE_LAUNCH" THEN "COUNTDOWN" ELSE @]
               ELSE [m2 EXCEPT !.status = "PRE_LAUNCH", !.countdownTime = 30]

\* checkMissionPhases(): the mission status after a tick that left engine e
CheckMissionPhases(status, e) ==
    LET s1 == IF status = "LAUNCH" /\ e.t.altitude > 100000 THEN "ASCENT" ELSE status
        s2 == IF s1 = "ASCENT" /\ e.s.stageNumber = 2 THEN "STAGE_SEP" ELSE s1
    IN IF e.t.altitude > 40000000 THEN "ORBIT" ELSE s2

\* The number of CRITICAL entries of a list checkAnomalies() returned
Criticals(list) ==
    Cardinality({i \in 1..Len(list) : list[i].severity = "CRITICAL"})

\* The server and the range after start-up
InitSite ==
    /\ mission = InitMission
    /\ countdownInterval = FALSE
    /\ telemetryInterval = FALSE
    /\ pollTimers = 0
    /\ range = RangeInitStatus

---------------------------------------------------------------------------
(* The state machine *)

Init ==
    /\ state = InitState
    /\ telemetry = InitTelemetry
    /\ timers = 0
    /\ timerAge = 0
    /\ stopped = 0
    /\ cmds = 0
    /\ lastOp = "new"
    /\ anomalies = <<>>
    /\ peakQ = 0
    /\ InitSite

Eng == Engine(state, telemetry, timers)

\* The engine after an operation, and the name of the operation
RocketBecomes(e, op) ==
    /\ state' = e.s
    /\ telemetry' = e.t
    /\ timers' = e.timers
    /\ timerAge' = IF e.timers > timers THEN 0 ELSE timerAge
    /\ lastOp' = op
    /\ anomalies' = <<>>
    /\ UNCHANGED peakQ

Becomes(e, op) == RocketBecomes(e, op) /\ UNCHANGED siteVars

\* The driver calls advance() while the bounds of the model allow it; the
\* deferred ignition fires before MaxTimerTicks further ticks have run.
CanAdvanceUntil(limit) ==
    /\ state.phase \notin {"ABORT", "LANDING"} => state.missionTime < limit
    /\ timers > 0 => timerAge < MaxTimerTicks
    /\ state.phase = "ABORTED_STOPPED" => stopped < MaxStoppedTicks
    /\ state.phase \notin {"ABORT", "LANDING"} => telemetry.altitude > -(MaxDepth * 100)

\* advance(): one call of updateSimulation()
AdvanceUntil(limit) ==
    /\ CanAdvanceUntil(limit)
    /\ \E e \in {UpdateSimulation(Eng)} :
          /\ state' = e.s
          /\ telemetry' = e.t
          /\ timers' = e.timers
          /\ timerAge' = IF e.timers > timers THEN 0
                         ELSE IF timers > 0 THEN timerAge + 1 ELSE timerAge
          /\ peakQ' = Max(peakQ, e.t.dynamicPressure)
    /\ stopped' = IF state.phase = "ABORTED_STOPPED" THEN stopped + 1 ELSE stopped
    /\ lastOp' = "advance"
    /\ anomalies' = <<>>
    /\ UNCHANGED <<cmds, siteVars>>

Advance == AdvanceUntil(MaxMissionTime)

\* The setTimeout callback of separateStage() runs
TimerFires ==
    /\ timers > 0
    /\ Becomes(SecondStageIgnition(Eng), "timer")
    /\ UNCHANGED <<stopped, cmds>>

\* checkAnomalies(): it returns a list and writes nothing
CheckAnomaliesCall ==
    /\ anomalies' = CheckAnomalies(telemetry)
    /\ lastOp' = "checkAnomalies"
    /\ UNCHANGED <<state, telemetry, timers, timerAge, stopped, cmds, peakQ, siteVars>>

\* The commands of a nominal flight, in their order
NominalArm ==
    /\ state.phase = "PAD" /\ ~state.ignitionSequence
    /\ Becomes(ArmIgnition(Eng), "armIgnition")
    /\ UNCHANGED <<stopped, cmds>>

NominalStart ==
    /\ state.phase = "PAD" /\ state.ignitionSequence
    /\ Becomes(StartIgnitionSequence(Eng), "startIgnitionSequence")
    /\ UNCHANGED <<stopped, cmds>>

NominalLaunch ==
    /\ state.phase = "IGNITION" /\ lastOp = "startIgnitionSequence"
    /\ Becomes(Launch(Eng), "launch")
    /\ UNCHANGED <<stopped, cmds>>

\* Ticks of a nominal flight: after liftoff
NominalAdvance == state.phase \notin {"PAD", "IGNITION"} /\ Advance

NominalNext ==
    \/ NominalArm
    \/ NominalStart
    \/ NominalLaunch
    \/ NominalAdvance
    \/ TimerFires

\* A nominal flight: armIgnition, startIgnitionSequence, launch, then ticks
\* and the deferred second-stage ignition
SpecNominal == Init /\ [][NominalNext]_vars

---------------------------------------------------------------------------
(* A flight the operator interrupts *)

\* The moments at which the operator issues a command in flight: right
\* after another command or a timer, while the deferred ignition is
\* pending, in a phase that ticks leave alone, and at regular mission times.
CommandPoint ==
    \/ lastOp \notin {"advance", "checkAnomalies"}
    \/ timers > 0
    \/ state.phase \in {"PAD", "ORBIT", "LANDED", "ABORTED_STOPPED"}
    \/ /\ state.phase \notin {"ABORT", "LANDING"}
       /\ state.missionTime % CommandPeriod = 0

Command(e, op) ==
    /\ cmds < MaxCmds
    /\ CommandPoint
    /\ Becomes(e, op)
    /\ cmds' = cmds + 1
    /\ UNCHANGED stopped

CmdAbort == Command(Abort(Eng), "abort")
CmdInitiateLanding == Command(InitiateLanding(Eng), "initiateLanding")

\* separateStage() as a manual override on the pad
PadSeparateStage ==
    /\ state.phase = "PAD"
    /\ Becomes(SeparateStage(Eng), "separateStage")
    /\ UNCHANGED <<stopped, cmds>>

Next ==
    \/ NominalArm
    \/ NominalStart
    \/ NominalLaunch
    \/ Advance
    \/ TimerFires
    \/ CmdAbort
    \/ CmdInitiateLanding
    \/ PadSeparateStage

Spec == Init /\ [][Next]_vars

---------------------------------------------------------------------------
(* A flight the operator aborts *)

AbortNext ==
    \/ NominalArm
    \/ NominalStart
    \/ NominalLaunch
    \/ Advance
    \/ TimerFires
    \/ CmdAbort
    \/ PadSeparateStage

\* The driver calls advance() at a fixed cadence.
AbortTick == state.phase = "ABORT" /\ Advance

SpecAbort == Init /\ [][AbortNext]_vars /\ WF_vars(AbortTick)

---------------------------------------------------------------------------
(* A flight of the first stage that the operator brings back *)

LandingAdvance ==
    /\ state.phase \notin {"PAD", "IGNITION"}
    /\ AdvanceUntil(MaxLandingTime)

\* initiateLanding() at regular mission times of the ascent
LandFromAscent ==
    /\ cmds = 0
    /\ state.phase \in {"LAUNCH", "ASCENT"}
    /\ state.missionTime % LandingPeriod = 0
    /\ Becomes(InitiateLanding(Eng), "initiateLanding")
    /\ cmds' = cmds + 1
    /\ UNCHANGED stopped

\* initiateLanding() again, after a tick of the landing burn
LandAgain ==
    /\ cmds > 0 /\ cmds < MaxLandings
    /\ state.phase = "LANDING"
    /\ state.landingBurnStarted
    /\ lastOp = "advance"
    /\ Becomes(InitiateLanding(Eng), "initiateLanding")
    /\ cmds' = cmds + 1
    /\ UNCHANGED stopped

LandingNext ==
    \/ NominalArm
    \/ NominalStart
    \/ NominalLaunch
    \/ LandingAdvance
    \/ LandFromAscent
    \/ LandAgain

SpecLanding == Init /\ [][LandingNext]_vars

LandingTick == state.phase = "LANDING" /\ LandingAdvance

\* The driver calls advance() at a fixed cadence.
SpecLandingLive == SpecLanding /\ WF_vars(LandingTick)

---------------------------------------------------------------------------
(* A flight in which the operator tries every command *)

\* The arguments of setThrottle(): below, inside and above the range
ThrottleLevels == {-20, 0, 50, 100, 130}

CmdArmIgnition == Command(ArmIgnition(Eng), "armIgnition")
CmdStartIgnitionSequence == Command(StartIgnitionSequence(Eng), "startIgnitionSequence")
CmdLaunch == Command(Launch(Eng), "launch")
CmdSeparateStage == Command(SeparateStage(Eng), "separateStage")
CmdSetThrottle == \E level \in ThrottleLevels : Command(SetThrottle(Eng, level), "setThrottle")

CommandsAdvance == AdvanceUntil(MaxCommandTime)

CommandsNext ==
    \/ NominalArm
    \/ NominalStart
    \/ NominalLaunch
    \/ CommandsAdvance
    \/ TimerFires
    \/ CmdArmIgnition
    \/ CmdStartIgnitionSequence
    \/ CmdLaunch
    \/ CmdSeparateStage
    \/ CmdSetThrottle
    \/ CmdAbort
    \/ CmdInitiateLanding

SpecCommands == Init /\ [][CommandsNext]_vars

---------------------------------------------------------------------------
(* A flight brought back early and re-ignited on the max-Q warning *)

GuidanceAdvance ==
    /\ state.phase \notin {"PAD", "IGNITION"} \/ cmds > 0
    /\ AdvanceUntil(MaxGuidanceTime)

\* initiateLanding() early in the ascent
GuidanceLand ==
    /\ cmds = 0
    /\ state.phase \in {"LAUNCH", "ASCENT"}
    /\ state.missionTime = GuidanceLandingTime
    /\ Becomes(InitiateLanding(Eng), "initiateLanding")
    /\ cmds' = 1
    /\ UNCHANGED stopped

\* startIgnitionSequence() during the landing, when the dynamic pressure
\* is above the limit of the max-Q warning; the flag armIgnition() set is
\* still set
GuidanceReignite ==
    /\ cmds = 1
    /\ state.phase = "LANDING"
    /\ lastOp = "advance"
    /\ telemetry.dynamicPressure > LimitMaxQ
    /\ Becomes(StartIgnitionSequence(Eng), "startIgnitionSequence")
    /\ cmds' = 2
    /\ UNCHANGED stopped

GuidanceNext ==
    \/ NominalArm
    \/ NominalStart
    \/ NominalLaunch
    \/ GuidanceAdvance
    \/ GuidanceLand
    \/ GuidanceReignite

SpecGuidance == Init /\ [][GuidanceNext]_vars

---------------------------------------------------------------------------
(* The anomaly detector on telemetry at and around the limits *)

ThrustInputs ==
    {0, Stage1Thrust, LimitMaxThrust - 1, LimitMaxThrust, LimitMaxThrust + 1}
GForceInputs ==
    {-(LimitMaxG + 1), -LimitMaxG, 0, LimitMaxG - 1, LimitMaxG, LimitMaxG + 1}
PressureInputs == {0, LimitMaxQ - 1, LimitMaxQ, LimitMaxQ + 1}

InitAnomalies ==
    /\ state = InitState
    /\ \E thrust \in ThrustInputs, gForce \in GForceInputs, q \in PressureInputs :
          telemetry = [InitTelemetry EXCEPT !.thrust = thrust,
                                            !.gForce = gForce,
                                            !.dynamicPressure = q]
    /\ timers = 0
    /\ timerAge = 0
    /\ stopped = 0
    /\ cmds = 0
    /\ lastOp = "new"
    /\ anomalies = <<>>
    /\ peakQ = 0
    /\ InitSite

AnomaliesNext == CheckAnomaliesCall

SpecAnomalies == InitAnomalies /\ [][AnomaliesNext]_vars

---------------------------------------------------------------------------
(* A flight whose engine is ignited again once in orbit *)

\* startIgnitionSequence() in ORBIT; the flag armIgnition() set is still set
OrbitReignite ==
    /\ state.phase = "ORBIT"
    /\ Becomes(StartIgnitionSequence(Eng), "startIgnitionSequence")
    /\ UNCHANGED <<stopped, cmds>>

ReflightAdvance == state.phase \notin {"PAD", "IGNITION"} /\ AdvanceUntil(MaxReflightTime)

ReflightNext ==
    \/ NominalArm
    \/ NominalStart
    \/ NominalLaunch
    \/ ReflightAdvance
    \/ TimerFires
    \/ OrbitReignite
    \/ CmdAbort
    \/ CheckAnomaliesCall

SpecReflight == Init /\ [][ReflightNext]_vars

---------------------------------------------------------------------------
(* A flight whose second stage is ignited again in orbit and left burning *)

OverburnAdvance == state.phase \notin {"PAD", "IGNITION"} /\ AdvanceUntil(MaxBurnTime)

OverburnNext ==
    \/ NominalArm
    \/ NominalStart
    \/ NominalLaunch
    \/ OverburnAdvance
    \/ TimerFires
    \/ OrbitReignite

SpecOverburn == Init /\ [][OverburnNext]_vars

---------------------------------------------------------------------------
(* The range under its periodic monitoring and the operator's commands *)

\* The engine and the server, left alone
FlightUnchanged ==
    UNCHANGED <<state, telemetry, timers, timerAge, stopped, cmds, anomalies,
                peakQ, mission, countdownInterval, telemetryInterval,
                pollTimers>>

\* A call of a method of the range
RangeBecomes(st, op) ==
    /\ range' = st
    /\ lastOp' = op
    /\ FlightUnchanged

AircraftDistances == {29, 30}
VesselDistances == {49, 50}
BatteryDrains == {0, 9}
ClosureReasons == {"intruder"}

TrafficEvents(distances) ==
    {[kind |-> "arrive", distance |-> d] : d \in distances}
    \cup {[kind |-> k, distance |-> 0] : k \in {"leave", "none"}}

\* The setInterval callback of startRangeMonitoring()
RangeMonitoring ==
    \E stationUp \in BOOLEAN, air \in TrafficEvents(AircraftDistances),
       sea \in TrafficEvents(VesselDistances), drain \in BatteryDrains :
        /\ air.kind = "arrive" => Len(range.airspace.aircraft) < MaxAircraft
        /\ sea.kind = "arrive" => Len(range.maritime.vessels) < MaxVessels
        /\ range.fts.batteryLevel - drain >= MinBatteryLevel
        /\ RangeBecomes(UpdateRangeStatus(range, stationUp, air, sea, drain),
                        "updateRangeStatus")

RangeClearRange == RangeBecomes(ClearRange(range), "clearRange")
RangeArmFTS == RangeBecomes(ArmFTS(range), "armFTS")
RangeDisarmFTS == RangeBecomes(DisarmFTS(range), "disarmFTS")
RangeAddTrackingStation == RangeBecomes(AddTrackingStation(range), "addTrackingStation")

RangeEmergencyClosure ==
    \E reason \in ClosureReasons :
        /\ Len(range.violations) < MaxViolations
        /\ RangeBecomes(EmergencyClosure(range, reason), "emergencyClosure")

RangeNext ==
    \/ RangeMonitoring
    \/ RangeClearRange
    \/ RangeArmFTS
    \/ RangeDisarmFTS
    \/ RangeAddTrackingStation
    \/ RangeEmergencyClosure

SpecRange == Init /\ [][RangeNext]_vars

---------------------------------------------------------------------------
(* The mission-control server: its socket handlers and its two intervals.  *)
(* The handlers stageSeparation and setThrottle, which act on a vehicle in *)
(* flight only, are not followed.                                          *)

VoteStations == {"Flight Director", "Booster"}
Votes == {"GO", "NO_GO"}
HoldReasons == {"weather"}

\* When the clients send an event
ServerCommandPoint == mission.countdownTime % ServerCommandPeriod = 0

\* A callback of the server's timers that leaves the engine as e
ServerBecomes(e, op) ==
    /\ RocketBecomes(e, op)
    /\ UNCHANGED <<stopped, cmds, range>>

\* The handler of a socket event that leaves the engine as e
ServerEvent(e, op) ==
    /\ cmds < MaxServerCmds
    /\ ServerCommandPoint
    /\ RocketBecomes(e, op)
    /\ cmds' = cmds + 1
    /\ UNCHANGED <<stopped, range>>

\* socket.on('initiateLaunch')
ServerInitiateLaunch ==
    /\ mission.status \in {"IDLE", "ABORT", "ORBIT"}
    /\ mission' = [mission EXCEPT !.status = "PRE_LAUNCH",
                                  !.countdownTime = 30,
                                  !.holds = <<>>,
                                  !.goNoGoPoll.pollComplete = FALSE,
                                  !.goNoGoPoll.isPolling = FALSE]
    /\ countdownInterval' = TRUE
    /\ ServerEvent([Eng EXCEPT !.s.phase = "PAD", !.s.abort = FALSE],
                     "initiateLaunch")
    /\ UNCHANGED <<telemetryInterval, pollTimers>>

\* socket.on('startGoNoGoPoll')
ServerStartGoNoGoPoll ==
    /\ mission.status \in {"PRE_LAUNCH", "COUNTDOWN"}
    /\ pollTimers < MaxPollTimers
    /\ mission' = [mission EXCEPT !.goNoGoPoll =
                       [stations |-> [s \in Stations |-> "null"],
                        isPolling |-> TRUE, pollComplete |-> FALSE]]
    /\ pollTimers' = pollTimers + 1
    /\ ServerEvent(Eng, "startGoNoGoPoll")
    /\ UNCHANGED <<countdownInterval, telemetryInterval>>

\* The setTimeout callback of startGoNoGoPoll
PollTimerFires ==
    /\ pollTimers > 0
    /\ pollTimers' = pollTimers - 1
    /\ mission' = IF mission.goNoGoPoll.isPolling
                  THEN [mission EXCEPT !.goNoGoPoll.stations = AutoVotes(@)]
                  ELSE mission
    /\ ServerBecomes(Eng, "pollTimer")
    /\ UNCHANGED <<countdownInterval, telemetryInterval>>

\* socket.on('goNoGoVote') with data {station, vote}
GoNoGoVote(station, vote) ==
    /\ mission.goNoGoPoll.isPolling
    /\ mission' = Voted(mission, station, vote)
    /\ countdownInterval' =
          IF AllVoted(mission'.goNoGoPoll.stations)
             /\ ~AllGo(mission'.goNoGoPoll.stations)
          THEN FALSE ELSE countdownInterval
    /\ ServerEvent(Eng, "goNoGoVote")
    /\ UNCHANGED <<telemetryInterval, pollTimers>>

ServerGoNoGoVote ==
    \E station \in VoteStations, vote \in Votes : GoNoGoVote(station, vote)

\* socket.on('holdCountdown')
ServerHoldCountdown ==
    \E reason \in HoldReasons :
        /\ countdownInterval
        /\ Len(mission.holds) < MaxHolds
        /\ countdownInterval' = FALSE
        /\ mission' = [mission EXCEPT !.holds =
                           Append(@, [time |-> mission.countdownTime,
                                      reason |-> reason])]
        /\ ServerEvent(Eng, "holdCountdown")
        /\ UNCHANGED <<telemetryInterval, pollTimers>>

\* socket.on('resumeCountdown')
ServerResumeCountdown ==
    /\ ~countdownInterval
    /\ mission.status = "COUNTDOWN"
    /\ countdownInterval' = TRUE
    /\ ServerEvent(Eng, "resumeCountdown")
    /\ UNCHANGED <<mission, telemetryInterval, pollTimers>>

\* launchRocket(): rocket.launch() is called and the telemetry interval set
LaunchRocket(m) == [m EXCEPT !.status = "LAUNCH"]

\* socket.on('launch')
ServerLaunch ==
    /\ mission.status = "COUNTDOWN"
    /\ mission.countdownTime <= 10
    /\ mission' = LaunchRocket(mission)
    /\ telemetryInterval' = TRUE
    /\ ServerEvent(Launch(Eng), "launch")
    /\ UNCHANGED <<countdownInterval, pollTimers>>

\* socket.on('abort'): abortMission(reason)
ServerAbort ==
    /\ mission' = [mission EXCEPT !.status = "ABORT"]
    /\ countdownInterval' = FALSE
    /\ ServerEvent(Abort(Eng), "abort")
    /\ UNCHANGED <<telemetryInterval, pollTimers>>

\* socket.on('initiateLanding')
ServerInitiateLanding ==
    /\ state.phase \in {"ASCENT", "SECOND_STAGE", "ORBIT", "ABORT"}
    /\ mission' = [mission EXCEPT !.status = "LANDING"]
    /\ ServerEvent(InitiateLanding(Eng), "initiateLanding")
    /\ UNCHANGED <<countdownInterval, telemetryInterval, pollTimers>>

\* socket.on('resetSimulation'): the server goes on with a new engine
ServerResetSimulation ==
    /\ mission' = [InitMission EXCEPT !.landingBurnAnnounced =
                                           mission.landingBurnAnnounced]
    /\ countdownInterval' = FALSE
    /\ telemetryInterval' = FALSE
    /\ state' = InitState
    /\ telemetry' = InitTelemetry
    /\ timers' = 0
    /\ timerAge' = 0
    /\ lastOp' = "resetSimulation"
    /\ anomalies' = <<>>
    /\ cmds < MaxServerCmds
    /\ ServerCommandPoint
    /\ cmds' = cmds + 1
    /\ UNCHANGED <<peakQ, stopped, range, pollTimers>>

\* socket.on('proceedWithLaunch')
ServerProceedWithLaunch ==
    /\ mission.status \in {"PRE_LAUNCH", "COUNTDOWN"}
    /\ mission' = [mission EXCEPT !.status = "COUNTDOWN", !.countdownTime = 30]
    /\ countdownInterval' = TRUE
    /\ ServerEvent(Eng, "proceedWithLaunch")
    /\ UNCHANGED <<telemetryInterval, pollTimers>>

\* The setInterval callback of startCountdown()
CountdownTick ==
    /\ countdownInterval
    /\ LET t == mission.countdownTime - 1
           m == [mission EXCEPT !.countdownTime = t]
       IN IF t = 0 /\ AllGoOrNull(mission.goNoGoPoll.stations)
          THEN /\ mission' = LaunchRocket(m)
               /\ telemetryInterval' = TRUE
               /\ countdownInterval' = FALSE
               /\ ServerBecomes(Launch(Eng), "launch")
          ELSE /\ mission' = IF t = 0 THEN [m EXCEPT !.status = "ABORT"] ELSE m
               /\ countdownInterval' = (t > 0)
               /\ ServerBecomes(IF t = 20 THEN ArmIgnition(Eng)
                                ELSE IF t = 10 THEN StartIgnitionSequence(Eng)
                                ELSE Eng, "countdown")
               /\ UNCHANGED telemetryInterval
    /\ UNCHANGED pollTimers

\* The setInterval callback of launchRocket(): updateSimulation(),
\* checkMissionPhases(), the landing events, then checkAnomalies() and
\* abortMission() for every CRITICAL anomaly
TelemetryTickUntil(limit) ==
    /\ telemetryInterval
    /\ CanAdvanceUntil(limit)
    /\ \E e \in {UpdateSimulation(Eng)} :
       \E list \in {CheckAnomalies(e.t)} :
       \E s1 \in {CheckMissionPhases(mission.status, e)} :
          LET landed == s1 = "LANDING" /\ e.s.phase = "LANDED"
              critical == Criticals(list) > 0
          IN /\ mission' =
                   [mission EXCEPT
                      !.status = IF critical THEN "ABORT"
                                 ELSE IF landed THEN "LANDED" ELSE s1,
                      !.landingBurnAnnounced =
                          @ \/ (s1 = "LANDING" /\ e.s.landingBurnStarted)]
             /\ telemetryInterval' = ~(e.t.altitude > 40000000 \/ landed)
             /\ countdownInterval' = (countdownInterval /\ ~critical)
             /\ \E r \in {IF critical THEN Abort(e) ELSE e} :
                   /\ state' = r.s
                   /\ telemetry' = r.t
                   /\ timers' = r.timers
                   /\ timerAge' = IF r.timers > timers THEN 0
                                  ELSE IF timers > 0 THEN timerAge + 1
                                  ELSE timerAge
             /\ peakQ' = Max(peakQ, e.t.dynamicPressure)
             /\ anomalies' = list
    /\ stopped' = IF state.phase = "ABORTED_STOPPED" THEN stopped + 1 ELSE stopped
    /\ lastOp' = "advance"
    /\ UNCHANGED <<cmds, range, pollTimers>>

TelemetryTick == TelemetryTickUntil(MaxServerTime)

ServerNext ==
    \/ ServerInitiateLaunch
    \/ ServerStartGoNoGoPoll
    \/ PollTimerFires
    \/ ServerGoNoGoVote
    \/ ServerHoldCountdown
    \/ ServerResumeCountdown
    \/ ServerLaunch
    \/ ServerAbort
    \/ ServerInitiateLanding
    \/ ServerResetSimulation
    \/ ServerProceedWithLaunch
    \/ CountdownTick
    \/ TelemetryTick

SpecServer == Init /\ [][ServerNext]_vars

---------------------------------------------------------------------------
(* A nominal flight driven by the server: initiateLaunch, a Go/No-Go poll  *)
(* in which every station votes GO, the countdown to T-0, then the 10 Hz   *)
(* loop and no socket event.  separateStage() is not reached before the    *)
(* loop aborts the flight, so no deferred ignition is ever pending.        *)

FlightInitiateLaunch == mission.status = "IDLE" /\ ServerInitiateLaunch

FlightStartGoNoGoPoll ==
    /\ mission.status = "PRE_LAUNCH"
    /\ ~mission.goNoGoPoll.isPolling /\ ~mission.goNoGoPoll.pollComplete
    /\ ServerStartGoNoGoPoll

\* The Flight Director votes GO after the other stations have reported
FlightGoNoGoVote ==
    /\ pollTimers = 0
    /\ GoNoGoVote("Flight Director", "GO")

FlightTelemetryTick == TelemetryTickUntil(MaxMissionTime)

FlightNext ==
    \/ FlightInitiateLaunch
    \/ FlightStartGoNoGoPoll
    \/ PollTimerFires
    \/ FlightGoNoGoVote
    \/ CountdownTick
    \/ FlightTelemetryTick

SpecServerFlight == Init /\ [][FlightNext]_vars

---------------------------------------------------------------------------
(* Properties *)

Tick == lastOp' = "advance"

NominalOrder ==
    <<"PAD", "IGNITION", "LAUNCH", "ASCENT", "MECO", "STAGE_SEP",
      "SECOND_STAGE", "ORBIT">>

\* C1: in the nominal flight (arm, start, launch, then ticks and the
\* deferred ignition) the phase goes through PAD, IGNITION, LAUNCH, ASCENT,
\* MECO, STAGE_SEP, SECOND_STAGE, ORBIT in this order, every one of them
\* being the phase of some state: every phase change goes from one phase
\* of the list to the next one.
C1_PhasesInOrder ==
    [][state'.phase /= state.phase =>
         \E i \in 1..(Len(NominalOrder) - 1) :
            /\ state.phase = NominalOrder[i]
            /\ state'.phase = NominalOrder[i + 1]]_vars

\* dry mass of the stage that burns, plus the payload
FloorMass(stageNumber) ==
    (IF stageNumber = 1 THEN Stage1DryMass ELSE Stage2DryMass) + Payload

\* C9: a tick that starts in ASCENT or SECOND_STAGE does not increase the
\* mass and leaves it at or above the dry mass of the active stage plus
\* the payload.
C9_MassDecreases ==
    [][(state.phase \in {"ASCENT", "SECOND_STAGE"} /\ Tick) =>
         /\ telemetry'.mass <= telemetry.mass
         /\ telemetry'.mass >= FloorMass(state'.stageNumber)]_vars

Aborted == {"ABORT", "ABORTED_STOPPED"}
Terminal == {"ORBIT", "LANDED", "ABORTED_STOPPED"}
Absorbing == {"PAD"} \cup Terminal

\* C2: once abort() has been called while the ignition separateStage()
\* deferred is pending, no tick and no firing of the timer takes the phase
\* out of ABORT and ABORTED_STOPPED: the phase never becomes SECOND_STAGE.
C2_AbortCancelsIgnition ==
    [][(state.phase \in Aborted /\ lastOp' \in {"advance", "timer"}) =>
         state'.phase \in Aborted]_vars

\* C3: in ORBIT, LANDED and ABORTED_STOPPED neither a tick nor the firing
\* of the deferred ignition changes the phase.
C3_TerminalPhasesStay ==
    [][(state.phase \in Terminal /\ lastOp' \in {"advance", "timer"}) =>
         state'.phase = state.phase]_vars

\* C4: after abort(), the thrust is 0 after every tick taken in ABORT, the
\* tick that reaches ABORTED_STOPPED included.
C4_NoThrustAfterAbort ==
    (lastOp = "advance" /\ state.phase \in Aborted) => telemetry.thrust = 0

\* an abort in flight has reached ABORTED_STOPPED through its ticks
C4_Witness ==
    /\ lastOp = "advance"
    /\ state.phase = "ABORTED_STOPPED"
    /\ stopped = 0
    /\ telemetry.stage2BurnTime > 0
    /\ telemetry.thrust = 0

\* C5: after abort() with no deferred ignition pending, the ticks reach
\* ABORTED_STOPPED, from any altitude and any velocity.
C5_AbortStops ==
    (state.phase = "ABORT" /\ timers = 0) ~> (state.phase = "ABORTED_STOPPED")

\* an abort issued in the flight of the first stage has come to its stop
C5_Witness ==
    /\ state.phase = "ABORTED_STOPPED"
    /\ state.stageNumber = 1
    /\ telemetry.stage1BurnTime >= CommandPeriod
    /\ timers = 0

\* C6: a tick taken in ABORT increases neither the magnitude of the
\* altitude nor the magnitude of the velocity.
C6_AbortDecays ==
    [][(state.phase = "ABORT" /\ Tick) =>
         /\ Abs(telemetry'.altitude) <= Abs(telemetry.altitude)
         /\ Abs(telemetry'.velocity) <= Abs(telemetry.velocity)]_vars

\* a tick of the decay has lowered both
C6_Witness ==
    /\ lastOp = "advance"
    /\ state.phase = "ABORT"
    /\ telemetry.altitude > 0
    /\ telemetry.velocity > 0

\* C7: a tick in ORBIT, LANDED or ABORTED_STOPPED leaves every field of
\* the telemetry as it was.
C7_TerminalTelemetry ==
    [][(state.phase \in Terminal /\ Tick) => telemetry' = telemetry]_vars

\* a tick has been taken in ABORTED_STOPPED
C7_Witness ==
    /\ lastOp = "advance"
    /\ state.phase = "ABORTED_STOPPED"
    /\ stopped > 0

\* C8: a tick in PAD, ORBIT, LANDED or ABORTED_STOPPED changes no field of
\* the flight state and no field of the telemetry.
C8_AbsorbingNoOp ==
    [][(state.phase \in Absorbing /\ Tick) =>
         (state' = state /\ telemetry' = telemetry)]_vars

\* C10: propellantRemaining lies in [0, 100], and the fuel percentage of a
\* stage is 0 as soon as the burn time of the stage has reached the rated
\* burn time.
C10_Propellant ==
    /\ telemetry.propellantRemaining \in 0..100000
    /\ telemetry.stage1BurnTime >= Stage1BurnTime =>
          telemetry.stage1FuelRemaining = 0
    /\ telemetry.stage2BurnTime >= Stage2BurnTime =>
          telemetry.stage2FuelRemaining = 0

\* both stages have burnt for their rated time
C10_Witness ==
    /\ telemetry.stage1BurnTime >= Stage1BurnTime
    /\ telemetry.stage2BurnTime >= Stage2BurnTime
    /\ telemetry.stage2FuelRemaining = 0
    /\ telemetry.propellantRemaining = 0

\* C11: telemetry.maxQ never decreases, whatever the operation, and after
\* every tick it is the largest dynamicPressure a tick has left so far.
C11_MaxQ ==
    [][/\ telemetry'.maxQ >= telemetry.maxQ
       /\ Tick => telemetry'.maxQ = peakQ']_vars

\* the dynamic pressure has fallen below the max-Q of the flight
C11_Witness ==
    /\ lastOp = "advance"
    /\ telemetry.dynamicPressure > 0
    /\ telemetry.dynamicPressure < telemetry.maxQ
    /\ telemetry.maxQ = peakQ

\* the list checkAnomalies() returned has a record for the parameter
Reported(parameter) ==
    \E i \in 1..Len(anomalies) : anomalies[i].parameter = parameter

\* every record of the list for the parameter has the severity
Severity(parameter, severity) ==
    \A i \in 1..Len(anomalies) :
       anomalies[i].parameter = parameter => anomalies[i].severity = severity

\* C12: checkAnomalies() returns a thrust record, CRITICAL, exactly when
\* thrust > maxThrust; a gForce record, CRITICAL, exactly when
\* |gForce| > maxG; a dynamicPressure record, WARNING, exactly when
\* dynamicPressure > the max-Q limit; none at equality.
C12_Anomalies ==
    lastOp = "checkAnomalies" =>
       /\ Reported("thrust") <=> telemetry.thrust > LimitMaxThrust
       /\ Severity("thrust", "CRITICAL")
       /\ Reported("gForce") <=> Abs(telemetry.gForce) > LimitMaxG
       /\ Severity("gForce", "CRITICAL")
       /\ Reported("dynamicPressure") <=> telemetry.dynamicPressure > LimitMaxQ
       /\ Severity("dynamicPressure", "WARNING")

\* thrust at its limit is not reported while a negative g-force beyond the
\* limit is
C12_Witness ==
    /\ lastOp = "checkAnomalies"
    /\ telemetry.thrust = LimitMaxThrust
    /\ telemetry.gForce = -(LimitMaxG + 1)
    /\ telemetry.dynamicPressure = LimitMaxQ
    /\ Len(anomalies) = 1
    /\ Reported("gForce")

\* C13: the phase becomes ABORT and the abort flag becomes true only by
\* abort(): no tick and no timer sets them, and checkAnomalies() changes
\* neither the flight state nor the telemetry, whatever it reports.
C13_NoSelfAbort ==
    [][/\ (state'.phase = "ABORT" /\ state.phase /= "ABORT") => lastOp' = "abort"
       /\ (state'.abort /\ ~state.abort) => lastOp' = "abort"
       /\ lastOp' = "checkAnomalies" => (state' = state /\ telemetry' = telemetry)]_vars

\* a g-force beyond the limit has been reported and the flight goes on
C13_Witness ==
    /\ lastOp = "checkAnomalies"
    /\ Reported("gForce")
    /\ state.phase = "ASCENT"
    /\ ~state.abort

\* The band of a tick in LANDING as a function of the altitude (cm) and
\* of landingBurnStarted; 0 where no band 1-6 is named.
NamedBand(altitude, burnStarted) ==
    IF altitude > 5000000 THEN 1
    ELSE IF altitude > 700000 THEN 2
    ELSE IF altitude > 200000 THEN 3
    ELSE IF altitude > 50000 /\ ~burnStarted THEN 4
    ELSE IF altitude > 2000 /\ burnStarted THEN 5
    ELSE IF altitude > 0 /\ altitude <= 2000 THEN 6
    ELSE 0

\* what the bands leave in state.engineStatus
BandStatus ==
    <<"RE-ENTRY BURN (3 ENGINES)", "GRID FIN CONTROL", "ENTRY BURN (3 ENGINES)",
      "PREPARING LANDING BURN", "LANDING BURN (1 ENGINE)", "TOUCHDOWN BURN">>

\* the thrust of bands 1-4, in N
BandThrust == <<1800000, 0, 2200000, 0>>

\* C14: the band a tick in LANDING applies depends only on the altitude at
\* the start of the tick and on landingBurnStarted (not on
\* landingLegsDeployed): above 50 km band 1 with 1.8 MN, above 7 km band 2
\* with no thrust, above 2 km band 3 with 2.2 MN, above 500 m before the
\* landing burn band 4 with no thrust, above 20 m in the landing burn
\* band 5, from 20 m down to the ground band 6.
C14_LandingBands ==
    [][(state.phase = "LANDING" /\ Tick) =>
         LET band == NamedBand(telemetry.altitude, state.landingBurnStarted)
         IN /\ band \in 1..6 => state'.engineStatus = BandStatus[band]
            /\ band \in 1..4 => telemetry'.thrust = BandThrust[band]]_vars

\* the landing burn goes on with the legs out
C14_Witness ==
    /\ lastOp = "advance"
    /\ state.phase = "LANDING"
    /\ state.engineStatus = "LANDING BURN (1 ENGINE)"
    /\ state.landingLegsDeployed
    /\ telemetry.altitude > 2000
    /\ telemetry.altitude < 4000

\* C15: a tick in LANDING sets the phase to LANDED only when the altitude
\* at the start of the tick is <= 0; above the ground the phase stays
\* LANDING, whatever landingBurnStarted is.
C15_LandedOnGround ==
    [][(state.phase = "LANDING" /\ Tick /\ state'.phase = "LANDED") =>
         telemetry.altitude <= 0]_vars

\* C16: after initiateLanding(), with no deferred ignition pending, the
\* ticks reach LANDED, from any altitude, velocity and mass.
C16_LandingEnds ==
    (state.phase = "LANDING" /\ timers = 0) ~> (state.phase = "LANDED")

\* C17: a command that is invalid for the current state changes neither
\* the flight state nor the telemetry (and schedules nothing): armIgnition()
\* outside PAD, launch() outside PAD and IGNITION, startIgnitionSequence()
\* when ignition is not armed, separateStage() when stageNumber is 2.
C17_InvalidCommands ==
    /\ state.phase /= "PAD" => ArmIgnition(Eng) = Eng
    /\ state.phase \notin {"PAD", "IGNITION"} => Launch(Eng) = Eng
    /\ ~state.ignitionSequence => StartIgnitionSequence(Eng) = Eng
    /\ state.stageNumber = 2 => SeparateStage(Eng) = Eng

\* launch() has been called during the ascent, and the ascent goes on
C17_Witness ==
    /\ lastOp = "launch"
    /\ state.phase = "ASCENT"
    /\ state.engineStatus = "RUNNING"
    /\ state.missionTime > 0
    /\ Launch(Eng) = Eng

\* C18: the phase becomes IGNITION only from PAD; in every other phase
\* startIgnitionSequence() leaves the phase unchanged, armed or not.
C18_IgnitionFromPad ==
    [][(state'.phase = "IGNITION" /\ state.phase /= "IGNITION")
         => state.phase = "PAD"]_vars

\* C19: abort(), initiateLanding() and setThrottle(x) applied twice in
\* immediate succession leave the engine as one application leaves it.
C19_Idempotent ==
    /\ Abort(Abort(Eng)) = Abort(Eng)
    /\ InitiateLanding(InitiateLanding(Eng)) = InitiateLanding(Eng)
    /\ \A x \in ThrottleLevels :
          SetThrottle(SetThrottle(Eng, x), x) = SetThrottle(Eng, x)

\* setThrottle(x) with x below the range has been called at full throttle:
\* a further call of the same command finds the throttle at 0
C19_Witness ==
    /\ lastOp = "setThrottle"
    /\ state.throttleLevel = 0
    /\ state.phase = "ASCENT"
    /\ telemetry.thrust > 0
    /\ SetThrottle(Eng, -20) = Eng

\* C20: throttleLevel is within [0, 100] in every reachable state, and
\* setThrottle(level) stores min(100, max(0, level)).
C20_ThrottleRange ==
    /\ state.throttleLevel >= 0
    /\ state.throttleLevel <= 100
    /\ \A x \in ThrottleLevels :
          SetThrottle(Eng, x).s.throttleLevel
             = (IF x < 0 THEN 0 ELSE IF x > 100 THEN 100 ELSE x)

\* setThrottle(-20) has been called in flight and has stored 0
C20_Witness ==
    /\ lastOp = "setThrottle"
    /\ state.throttleLevel = 0
    /\ state.phase \in {"LAUNCH", "ASCENT"}
    /\ cmds = MaxCmds

Powered == {"IGNITION", "LAUNCH", "ASCENT", "MECO", "STAGE_SEP", "SECOND_STAGE"}

\* C21: missionTime never decreases; advance() in IGNITION, LAUNCH, ASCENT,
\* MECO, STAGE_SEP or SECOND_STAGE adds exactly one step of 0.1 s to it,
\* advance() in ABORT or LANDING leaves it unchanged, and no command (and
\* no deferred ignition) changes it.
C21_MissionTime ==
    [][/\ state'.missionTime >= state.missionTime
       /\ (Tick /\ state.phase \in Powered)
             => state'.missionTime = state.missionTime + 1
       /\ (Tick /\ state.phase \in {"ABORT", "LANDING"})
             => state'.missionTime = state.missionTime
       /\ ~Tick => state'.missionTime = state.missionTime]_vars

\* a tick of the abort has run in a flight aborted 50 s after ignition
C21_Witness ==
    /\ lastOp = "advance"
    /\ state.phase = "ABORT"
    /\ state.missionTime = CommandPeriod
    /\ telemetry.altitude > 0

\* C22: whenever the phase is MECO or STAGE_SEP, reached by the automatic
\* cutoff or by separateStage() as a manual override, the thrust is 0.
C22_CoastNoThrust ==
    state.phase \in {"MECO", "STAGE_SEP"} => telemetry.thrust = 0

\* C23: the altitude is never negative, whatever the commands and the
\* ticks.
C23_AltitudeNotNegative == telemetry.altitude >= 0

\* C24: the mass is never negative, whatever the commands and however many
\* the ticks.
C24_MassNotNegative == telemetry.mass >= 0

\* C25: after the first-stage cutoff the engine stays in MECO for at least
\* 3 s of mission time, and only a tick after that delay separates the
\* stages: the tick that separates them starts in MECO.
C25_SeparationDelay ==
    [][(Tick /\ state.stageNumber = 1 /\ state'.stageNumber = 2)
         => state.phase = "MECO"]_vars

\* C26: a tick in STAGE_SEP leaves the phase STAGE_SEP; the phase becomes
\* SECOND_STAGE only when the deferred action of separateStage() fires;
\* one deferred action is scheduled per separation and it fires once.
C26_StageSepWaits ==
    [][/\ (Tick /\ state.phase = "STAGE_SEP") => state'.phase = "STAGE_SEP"
       /\ (state'.phase = "SECOND_STAGE" /\ state.phase /= "SECOND_STAGE")
             => lastOp' = "timer"
       /\ lastOp' = "timer" => (timers > 0 /\ timers' = timers - 1)
       /\ timers' > timers
             => /\ timers' = timers + 1
                /\ state.stageNumber = 1
                /\ state'.stageNumber = 2]_vars

\* ticks have run in STAGE_SEP while the deferred ignition is pending
C26_Witness ==
    /\ lastOp = "advance"
    /\ state.phase = "STAGE_SEP"
    /\ timers = 1
    /\ timerAge > 0
    /\ state.stageNumber = 2

\* C27: separateStage() with stageNumber = 1 sets the phase to STAGE_SEP,
\* stageNumber to 2 and the mass to 138300 kg (second-stage dry mass plus
\* second-stage propellant plus payload) whatever the mass was, and leaves
\* every other telemetry field unchanged.  The mass is in units of 10 g.
C27_Separation ==
    state.stageNumber = 1 =>
       /\ SeparateStage(Eng).s.phase = "STAGE_SEP"
       /\ SeparateStage(Eng).s.stageNumber = 2
       /\ SeparateStage(Eng).t = [telemetry EXCEPT !.mass = 13830000]

\* separateStage() has been called 50 s into the ascent, engines running
C27_Witness ==
    /\ lastOp = "separateStage"
    /\ state.phase = "STAGE_SEP"
    /\ state.stageNumber = 2
    /\ state.missionTime = CommandPeriod
    /\ telemetry.mass = 13830000
    /\ telemetry.thrust > 0
    /\ telemetry.velocity > 0
    /\ timers = 1

\* C28: a tick that starts in ASCENT with stageNumber = 1 cuts the first
\* stage off exactly when, after its physics, stage1FuelRemaining <= 0 or
\* stage1BurnTime >= 162 s: no tick before that one, and that one without
\* fail; the thrust is 0 after the tick of the cutoff.
C28_Cutoff ==
    [][(Tick /\ state.phase = "ASCENT" /\ state.stageNumber = 1) =>
         IF telemetry'.stage1FuelRemaining <= 0
               \/ telemetry'.stage1BurnTime >= Stage1BurnTime
         THEN state'.phase \in {"MECO", "STAGE_SEP"} /\ telemetry'.thrust = 0
         ELSE state'.phase = "ASCENT" /\ state'.stageNumber = 1]_vars

\* the tick of the cutoff has run: the burn time has just reached 162 s
C28_Witness ==
    /\ lastOp = "advance"
    /\ telemetry.stage1BurnTime = Stage1BurnTime
    /\ telemetry.stage1FuelRemaining = 0
    /\ state.phase \in {"MECO", "STAGE_SEP"}
    /\ telemetry.thrust = 0
    /\ timerAge = 0

\* C29: a tick in SECOND_STAGE moves the phase to ORBIT if and only if,
\* after its physics, stage2FuelRemaining <= 0 or altitude >= 400 km or
\* velocity >= 7660 m/s, either target alone being enough; the thrust is
\* set to 0 at the transition, and it is 0 whenever the phase is ORBIT.
C29_OrbitInsertion ==
    [][/\ (Tick /\ state.phase = "SECOND_STAGE") =>
            (state'.phase = "ORBIT"
               <=> \/ telemetry'.stage2FuelRemaining <= 0
                   \/ telemetry'.altitude >= TargetAltitude
                   \/ telemetry'.velocity >= TargetVelocity)
       /\ state'.phase = "ORBIT" => telemetry'.thrust = 0]_vars

\* the tick of the insertion has run: the altitude alone is on target
C29_Witness ==
    /\ lastOp = "advance"
    /\ state.phase = "ORBIT"
    /\ telemetry.altitude >= TargetAltitude
    /\ telemetry.velocity < TargetVelocity
    /\ telemetry.stage2FuelRemaining > 0
    /\ telemetry.thrust = 0

\* The phases in which a tick runs simulateAscent()
Ascending == {"LAUNCH", "ASCENT", "SECOND_STAGE"}

\* C30: in each ascent tick the guidance law sets throttleLevel to 70 if
\* the dynamic pressure is above 35000 Pa and stageNumber = 1; otherwise
\* to 100 if the dynamic pressure is below 25000 Pa and throttleLevel is
\* below 100; and from 25000 to 35000 Pa it leaves throttleLevel as it is,
\* so that a throttle of 70 stays until the pressure is below 25000 Pa.
\* The dynamic pressure is the one the tick finds.
C30_Guidance ==
    [][(Tick /\ state.phase \in Ascending) =>
         /\ (telemetry.dynamicPressure > 35000 /\ state.stageNumber = 1)
               => state'.throttleLevel = 70
         /\ (/\ ~(telemetry.dynamicPressure > 35000 /\ state.stageNumber = 1)
             /\ telemetry.dynamicPressure < 25000
             /\ state.throttleLevel < 100)
               => state'.throttleLevel = 100
         /\ (telemetry.dynamicPressure >= 25000 /\ telemetry.dynamicPressure <= 35000)
               => state'.throttleLevel = state.throttleLevel]_vars

\* throttled down to 70, and the dynamic pressure has come back into the
\* band from 25000 to 35000 Pa
C30_Witness ==
    /\ lastOp = "advance"
    /\ state.phase \in Ascending
    /\ state.throttleLevel = 70
    /\ telemetry.dynamicPressure >= 25000
    /\ telemetry.dynamicPressure <= 35000
    /\ telemetry.maxQ > 35000

\* C31: the tick that moves the abort sequencer to ABORTED_STOPPED, by
\* either stop condition, leaves the telemetry at rest: altitude, velocity,
\* acceleration, gForce, thrust, chamberPressure, exhaustVelocity, the flow
\* rates, the turbopump speeds and the vibration are 0.
C31_StoppedAtRest ==
    [][(Tick /\ state.phase = "ABORT" /\ state'.phase = "ABORTED_STOPPED") =>
         /\ telemetry'.altitude = 0
         /\ telemetry'.velocity = 0
         /\ telemetry'.acceleration = 0
         /\ telemetry'.gForce = 0
         /\ telemetry'.thrust = 0
         /\ telemetry'.chamberPressure = 0
         /\ telemetry'.exhaustVelocity = 0
         /\ telemetry'.fuelFlowRate = 0
         /\ telemetry'.oxidizerFlowRate = 0
         /\ telemetry'.totalFlowRate = 0
         /\ telemetry'.fuelTurbopumpRPM = 0
         /\ telemetry'.oxidizerTurbopumpRPM = 0
         /\ telemetry'.vibrationLevel = 0]_vars

\* C32: the tick that moves LANDING to LANDED does not apply the
\* end-of-tick recomputation: in phase LANDED the thrust, engineThrottle,
\* velocity, altitude, acceleration, gForce and both turbopump speeds are 0.
C32_LandedAtRest ==
    state.phase = "LANDED" =>
       /\ telemetry.thrust = 0
       /\ telemetry.engineThrottle = 0
       /\ telemetry.velocity = 0
       /\ telemetry.altitude = 0
       /\ telemetry.acceleration = 0
       /\ telemetry.gForce = 0
       /\ telemetry.fuelTurbopumpRPM = 0
       /\ telemetry.oxidizerTurbopumpRPM = 0

\* C33: a tick in ABORT never raises the mass: the mass after the tick is
\* at most the mass before it, whatever the mass ABORT was entered with.
C33_AbortMassDecays ==
    [][(Tick /\ state.phase = "ABORT") => telemetry'.mass <= telemetry.mass]_vars

\* C36: stageNumber changes only from 1 to 2; phase SECOND_STAGE implies
\* stageNumber = 2; a deferred second-stage ignition is scheduled only by
\* the step that takes stageNumber from 1 to 2, hence at most once in the
\* life of an engine, and at most one is pending.
C36_OneSeparation ==
    [][/\ state'.stageNumber /= state.stageNumber
             => (state.stageNumber = 1 /\ state'.stageNumber = 2)
       /\ state'.phase = "SECOND_STAGE" => state'.stageNumber = 2
       /\ timers' > timers
             => (state.stageNumber = 1 /\ state'.stageNumber = 2 /\ timers = 0)
       /\ timers' <= 1]_vars

\* the deferred ignition has fired: second stage running, none pending
C36_Witness ==
    /\ lastOp = "timer"
    /\ state.phase = "SECOND_STAGE"
    /\ state.stageNumber = 2
    /\ timers = 0
    /\ telemetry.stage1BurnTime = Stage1BurnTime

\* C37: when a landing begun above 40 m reaches LANDED, landingLegsDeployed
\* is true.  In these flights initiateLanding() is called at multiples of
\* LandingPeriod, mission time stands still during the landing, and only
\* the landings begun at mission time 0 begin at or below 40 m.
C37_LegsDeployed ==
    (state.phase = "LANDED" /\ state.missionTime > 0) => state.landingLegsDeployed


\* C38: a tick taken in IGNITION completes the ignition by itself: after it
\* the thrust is the full sea-level thrust of the first stage, the engine
\* throttle is 100 %, the chamber pressure is 270 bar and the phase is
\* LAUNCH.
C38_IgnitionCompletes ==
    [][(Tick /\ state.phase = "IGNITION") =>
         /\ telemetry'.thrust = Stage1Thrust
         /\ telemetry'.engineThrottle = 100000
         /\ telemetry'.chamberPressure = 270000
         /\ state'.phase = "LAUNCH"]_vars


\* C39: a throttle level below 100 is set back to 100 by the guidance law
\* during the next tick taken in LAUNCH, ASCENT or SECOND_STAGE whenever the
\* dynamic pressure read by that tick is below 25000 Pa; the thrust of that
\* one tick is the stage thrust scaled by the commanded level.
C39_ThrottleRestored ==
    [][(/\ Tick
        /\ state.phase \in {"LAUNCH", "ASCENT", "SECOND_STAGE"}
        /\ state.throttleLevel < 100
        /\ telemetry.dynamicPressure < 25000) =>
         /\ state'.throttleLevel = 100
         /\ telemetry'.thrust = (CalculateThrust(Eng) * state.throttleLevel) \div 100]_vars

C39_Witness ==
    /\ lastOp = "advance"
    /\ cmds = 1
    /\ state.phase = "LAUNCH"
    /\ state.stageNumber = 1
    /\ state.throttleLevel = 100
    /\ telemetry.thrust > 0
    /\ 2 * telemetry.thrust <= Stage1ThrustVac


\* C40: the periodic monitoring run that follows emergencyClosure(reason),
\* no operator command having been issued in between, leaves rangeStatus
\* RED and isRangeClear() false.
C40_ClosurePersists ==
    [][(lastOp = "emergencyClosure" /\ lastOp' = "updateRangeStatus") =>
         (range'.rangeStatus = "RED" /\ ~IsRangeClear(range'))]_vars


\* A completed Go/No-Go poll that holds a NO_GO vote
Scrubbed ==
    /\ mission.goNoGoPoll.pollComplete
    /\ \E s \in Stations : mission.goNoGoPoll.stations[s] = "NO_GO"

\* C34: while the last completed Go/No-Go poll holds a NO_GO vote, no
\* socket event and no countdown tick of the server calls rocket.launch().
C34_NoGoPreventsLaunch ==
    [][Scrubbed => lastOp' /= "launch"]_vars


\* C35: in a nominal flight driven by the server, with no socket event
\* after liftoff, no checkAnomalies() call of the 10 Hz loop returns a
\* CRITICAL anomaly and the server does not abort the mission.
C35_NoAutoAbort ==
    Criticals(anomalies) = 0 /\ mission.status /= "ABORT"

===========================================================================
